---- MODULE Spec2Model ----
(***************************************************************************)
(* Flow execution engine of hacktopus (src/main.py): run_flow_internal,     *)
(* the task coroutines it awaits, and the flow validator.                   *)
(*                                                                          *)
(* Strings the engine inspects (process output, alias references) are       *)
(* sequences of tokens, so that strip(), split() and join() are computed    *)
(* as Python computes them.  Opaque texts (names, command lines, messages)  *)
(* are TLA+ strings.  A Python dict is a record/function and `k in d` is    *)
(* k \in DOMAIN d.                                                          *)
(***************************************************************************)
EXTENDS Integers, Sequences, FiniteSets, TLC

\* ------------------------------------------------------------------ bounds
\* Longest task list of a generated single-stage flow definition.
MaxTasks == 3

\* --------------------------------------------------------- Python values
\* Python's None where a string is expected (input_data, stage output).
None == <<"None">>

\* Truthiness of an Optional[str]: None and "" are falsy.
Truthy(s) == s # None /\ s # <<>>

\* d.get(k, default)
Get(d, k, default) == IF k \in DOMAIN d THEN d[k] ELSE default

IsSpace(c) == c \in {" ", "\n"}

RECURSIVE lstrip(_)
lstrip(s) == IF s # <<>> /\ IsSpace(Head(s)) THEN lstrip(Tail(s)) ELSE s

RECURSIVE rstrip(_)
rstrip(s) ==
    IF s # <<>> /\ IsSpace(s[Len(s)]) THEN rstrip(SubSeq(s, 1, Len(s) - 1)) ELSE s

\* str.strip()
strip(s) == rstrip(lstrip(s))

\* sep.join(xs)
RECURSIVE join(_, _)
join(sep, xs) ==
    IF xs = <<>> THEN <<>>
    ELSE IF Len(xs) = 1 THEN xs[1]
    ELSE xs[1] \o sep \o join(sep, Tail(xs))

\* Index of the first ':' of s, 0 when there is none.
RECURSIVE FindColon(_, _)
FindColon(s, i) ==
    IF i > Len(s) THEN 0 ELSE IF s[i] = ":" THEN i ELSE FindColon(s, i + 1)

HasColon(s) == FindColon(s, 1) # 0

\* s.split(':', 1) for a string that holds a ':' : <<before, after>>.
Split1(s) ==
    LET i == FindColon(s, 1)
    IN  <<SubSeq(s, 1, i - 1), SubSeq(s, i + 1, Len(s))>>

\* ---------------------------------------------------- the files on disk
\* tools_dir: tool name -> (config.yaml, aliases of aliases.yaml).
ToolFiles ==
    [nmap |-> [config  |-> [run_command |-> "nmap", accepts_stdin |-> TRUE],
               aliases |-> [scan |-> [command |-> "-sV"],
                            host |-> [command   |-> <<"-", "u", " ", "{", "{", "t", "}", "}">>,
                                      variables |-> <<[name      |-> <<"t">>,
                                                       transform |-> "url_to_domain"]>>]]],
     curl |-> [config  |-> [run_command |-> "curl", header_flag |-> "-H",
                            accepts_stdin |-> FALSE],
               aliases |-> [get |-> [command   |-> <<"-s", " ", "{", "{", "t", "}", "}">>,
                                     variables |-> <<[name |-> <<"t">>]>>]]],
     dig  |-> [config  |-> [run_command |-> "dig", accepts_stdin |-> FALSE],
               aliases |-> [short |-> [command |-> <<"+short">>]]],
     wget |-> [config  |-> [run_command |-> "wget", header_flag |-> ""],
               aliases |-> [get |-> [command |-> <<"-q">>]]]]

\* load_tool(tool_name): ({}, {}) when the tool has no files.
load_tool(tool_name) ==
    IF tool_name \in DOMAIN ToolFiles
    THEN <<ToolFiles[tool_name].config, ToolFiles[tool_name].aliases>>
    ELSE <<<<>>, <<>>>>

\* Tool and alias names are read off the alias reference as one token each.
Name(chars) == IF Len(chars) = 1 THEN chars[1] ELSE "?"

AliasOk      == <<"nmap", ":", "scan">>
AliasMissing == <<"nmap", ":", "nope">>
AliasHost    == <<"nmap", ":", "host">>

AliasNoColon == <<"nmap">>

\* Task records, as the YAML gives them (the kind is the key that is present).
\* A command line is a sequence of tokens.
Cmd(text)            == [command |-> <<text>>]
CmdS(text, settings) == [command |-> <<text>>, settings |-> settings]
Alias(ref)           == [alias |-> ref]
FlowT(name)          == [flow |-> name, variables |-> <<>>]

\* A task record with none of the keys alias / command / flow.
Untyped == [description |-> "todo"]

\* A task record with two of the keys alias / command / flow.
TwoKinds == [alias |-> AliasOk, command |-> <<"run">>]

NoPipeOut == [pipe_output |-> FALSE]
NoPipeIn  == [pipe_input |-> FALSE]

\* A nested-flow task with settings.
FlowS(name, settings) == [flow |-> name, variables |-> <<>>, settings |-> settings]

Stage(par, dist, tasks) == [parallel |-> par, distribution |-> dist, tasks |-> tasks]

Flow1(name, stage_def) ==
    [name |-> name, stages |-> [main |-> stage_def], flow |-> <<[stage |-> "main"]>>]

\* flows_dir: flow name -> parsed YAML.  "ghost" has no file.
FlowFiles ==
    [sub  |-> Flow1("sub", Stage(FALSE, "chained", <<Cmd("list")>>)),
     lost |-> Flow1("lost", Stage(FALSE, "chained",
                                  <<Cmd("run"), FlowT("ghost"), Cmd("sort")>>)),
     loop |-> Flow1("loop", Stage(FALSE, "chained", <<Cmd("true"), FlowT("loop")>>)),
     bad  |-> Flow1("bad", Stage(FALSE, "chained", <<Alias(AliasMissing)>>)),
     cyc  |-> Flow1("cyc", Stage(FALSE, "chained", <<FlowT("cyc"), FlowT("bad")>>)),
     nest |-> Flow1("nest", Stage(FALSE, "chained", <<Cmd("true"), FlowT("odd")>>)),
     ping |-> Flow1("ping", Stage(TRUE, "broadcast", <<FlowT("pong"), Cmd("true")>>)),
     pong |-> Flow1("pong", Stage(FALSE, "chained", <<FlowT("ping")>>)),
     vars |-> [name      |-> "vars",
               variables |-> [t |-> "target"],
               stages    |-> [par |-> Stage(TRUE, "broadcast",
                                            <<Alias(AliasHost),
                                              [flow |-> "sub", variables |-> [u |-> <<"{", "{", "t", "}", "}">>]],
                                              [command |-> <<"e", "c", "h", "o", " ", "{", "{", "t", "}", "}">>]>>),
                              seq |-> Stage(FALSE, "chained",
                                            <<Alias(AliasHost), [command |-> <<"e", "c", "h", "o", " ", "{", "{", "t", "}", "}">>]>>)],
               flow      |-> <<[stage |-> "par"], [stage |-> "seq"]>>],
     dflt |-> Flow1("dflt", [tasks |-> <<Cmd("run")>>]),
     feed |-> [name   |-> "feed",
               stages |-> [one |-> Stage(FALSE, "chained",
                                         <<Cmd("run"), FlowT("sub"), FlowS("sub", NoPipeIn)>>),
                           two |-> Stage(TRUE, "broadcast",
                                         <<FlowT("sub"), FlowS("sub", NoPipeIn)>>)],
               flow   |-> <<[stage |-> "one"], [stage |-> "two"]>>],
     free |-> Flow1("free", Stage(FALSE, "chained",
                                  <<[command |-> <<"e", "c", "h", "o", " ", "{", "{", "z", "}", "}">>]>>)),
     bind |-> [name      |-> "bind",
               variables |-> [t |-> "target"],
               stages    |-> [main |-> Stage(FALSE, "chained",
                                             <<[flow |-> "sub",
                                                variables |-> [u |-> <<"{", "{", "t", "}", "}">>,
                                                               v |-> <<"l", "i", "t">>,
                                                               w |-> <<"{", "{", "t", "]", "]">>]]>>)],
               flow      |-> <<[stage |-> "main"]>>],
     show |-> Flow1("show", Stage(FALSE, "chained", <<Cmd("tags")>>)),
     pipe |-> [name   |-> "pipe",
               stages |-> [first |-> Stage(FALSE, "chained", <<Cmd("run")>>),
                           mid   |-> Stage(TRUE, "broadcast", <<Cmd("list")>>),
                           last  |-> Stage(FALSE, "chained", <<Cmd("run")>>)],
               flow   |-> <<[stage |-> "first"], [stage |-> "mid"], [stage |-> "last"]>>],
     fan  |-> [name   |-> "fan",
               stages |-> [recon  |-> Stage(TRUE, "broadcast",
                                            <<Cmd("probe"), FlowT("sub"), Alias(AliasMissing)>>),
                           report |-> Stage(FALSE, "chained", <<Alias(AliasOk)>>)],
               flow   |-> <<[stage |-> "recon"], [stage |-> "report"]>>],
     odd  |-> [name   |-> "odd",
               stages |-> [a |-> Stage(FALSE, "broadcast", <<Cmd("probe")>>),
                           b |-> Stage(TRUE, "chained", <<Cmd("probe")>>),
                           c |-> Stage(FALSE, "chained", <<Cmd("probe"), Untyped>>),
                           d |-> Stage(FALSE, "chained", <<Alias(AliasNoColon)>>),
                           e |-> Stage(TRUE, "broadcast", <<Untyped, Cmd("true")>>)],
               flow   |-> <<[stage |-> "c"], [stage |-> "a"], [stage |-> "zz"],
                            [stage |-> "b"], [stage |-> "e"], [stage |-> "d"]>>]]

\* load_flow(flow_name): {} when there is no such file.
load_flow(flow_name) ==
    IF flow_name \in DOMAIN FlowFiles THEN FlowFiles[flow_name] ELSE <<>>

\* Task lists of the generated flow definitions.
ChainTasks ==
    {Cmd("run"), CmdS("list", NoPipeOut), CmdS("list", NoPipeIn), Alias(AliasMissing),
     FlowT("sub")}

BcastTasks ==
    {Cmd("run"), CmdS("list", NoPipeIn), Alias(AliasMissing), FlowT("sub"), FlowT("ghost")}

RECURSIVE SeqsUpTo(_, _)
SeqsUpTo(S, n) ==
    IF n = 0 THEN {<<>>}
    ELSE LET shorter == SeqsUpTo(S, n - 1)
         IN  shorter \cup {Append(ts, t) : ts \in {x \in shorter : Len(x) = n - 1}, t \in S}

TaskLists(S) == SeqsUpTo(S, MaxTasks) \ {<<>>}

\* The flow definitions a run is started with.
RootFlows ==
    {FlowFiles[n] : n \in DOMAIN FlowFiles}
      \cup {Flow1("gen", Stage(FALSE, "chained", ts)) : ts \in TaskLists(ChainTasks)}
      \cup {Flow1("gen", Stage(TRUE, "broadcast", ts)) : ts \in TaskLists(BcastTasks)}

\* ------------------------------------------------- template expansion
\* Strings are sequences of characters.  str.replace(old, new) for a
\* non-empty old: the occurrences are found left to right and do not overlap.
RECURSIVE replace(_, _, _)
replace(s, old, new) ==
    IF Len(s) < Len(old) THEN s
    ELSE IF SubSeq(s, 1, Len(old)) = old
    THEN new \o replace(SubSeq(s, Len(old) + 1, Len(s)), old, new)
    ELSE <<Head(s)>> \o replace(Tail(s), old, new)

\* f"{{{{{vname}}}}}": the name between double braces.
Placeholder(vname) == <<"{", "{">> \o vname \o <<"}", "}">>

\* A binding map is a dict: its items, <<name, value>>, in insertion order.
HasKey(d, name) == \E i \in DOMAIN d : d[i][1] = name

ValueOf(d, name) == d[CHOOSE i \in DOMAIN d : d[i][1] = name][2]

\* d[name] = value for a key that is present: the item keeps its place.
SetItem(d, name, value) ==
    [i \in DOMAIN d |-> IF d[i][1] = name THEN <<name, value>> ELSE d[i]]

\* Lines 767-769: run_command_async replaces the placeholder of every bound
\* variable in turn, in the order of var_values.items(), from item i on.
RECURSIVE ExpandCommand(_, _, _)
ExpandCommand(command, var_values, i) ==
    IF i > Len(var_values) THEN command
    ELSE ExpandCommand(replace(command, Placeholder(var_values[i][1]), var_values[i][2]),
                       var_values, i + 1)

\* Index of the first of the characters cs in s at or after i, Len(s) + 1
\* when there is none.
RECURSIVE FindAny(_, _, _)
FindAny(s, cs, i) ==
    IF i > Len(s) THEN Len(s) + 1 ELSE IF s[i] \in cs THEN i ELSE FindAny(s, cs, i + 1)

Letters ==
    {"a", "b", "c", "d", "e", "f", "g", "h", "i", "j", "k", "l", "m",
     "n", "o", "p", "q", "r", "s", "t", "u", "v", "w", "x", "y", "z"}
Digits  == {"0", "1", "2", "3", "4", "5", "6", "7", "8", "9"}

\* urllib.parse.urlsplit: the url after its scheme, when it has one (a ':'
\* after a letter followed by letters, digits, '+', '-' or '.').  The urls
\* here hold no brackets, whitespace or upper-case letters.
AfterScheme(url) ==
    LET i == FindColon(url, 1)
    IN  IF i > 1 /\ url[1] \in Letters
           /\ \A k \in 1..(i - 1) : url[k] \in Letters \cup Digits \cup {"+", "-", "."}
        THEN SubSeq(url, i + 1, Len(url)) ELSE url

\* urlparse(value).netloc: what follows '//' up to the first '/', '?' or '#';
\* empty when the url (after its scheme) does not start with '//'.
netloc(value) ==
    LET url == AfterScheme(value)
    IN  IF Len(url) >= 2 /\ SubSeq(url, 1, 2) = <<"/", "/">>
        THEN SubSeq(url, 3, FindAny(url, {"/", "?", "#"}, 3) - 1)
        ELSE <<>>

\* str.removeprefix(prefix)
removeprefix(s, prefix) ==
    IF Len(s) >= Len(prefix) /\ SubSeq(s, 1, Len(prefix)) = prefix
    THEN SubSeq(s, Len(prefix) + 1, Len(s)) ELSE s

\* Lines 667-671.
transform_value(value, transform_type) ==
    IF transform_type = "url_to_domain"
    THEN removeprefix(netloc(value), <<"w", "w", "w", ".">>)
    ELSE value

\* Lines 673-676: the declared variables that are bound and have a transform
\* get their value transformed, in processed_vars, from declaration i on.
RECURSIVE TransformVars(_, _, _)
TransformVars(variables, i, processed_vars) ==
    IF i > Len(variables) THEN processed_vars
    ELSE LET var_def == variables[i]
             vname   == var_def.name
         IN  TransformVars(variables, i + 1,
                 IF HasKey(processed_vars, vname) /\ "transform" \in DOMAIN var_def
                 THEN SetItem(processed_vars, vname,
                              transform_value(ValueOf(processed_vars, vname),
                                              var_def.transform))
                 ELSE processed_vars)

\* Lines 678-681 with an else branch that blanks the placeholder of a
\* declared variable that is not bound.
RECURSIVE ExpandAlias_BlanksUnbound(_, _, _, _)
ExpandAlias_BlanksUnbound(variables, i, cmd_template, processed_vars) ==
    IF i > Len(variables) THEN cmd_template
    ELSE LET vname == variables[i].name
         IN  ExpandAlias_BlanksUnbound(variables, i + 1,
                 IF HasKey(processed_vars, vname)
                 THEN replace(cmd_template, Placeholder(vname), ValueOf(processed_vars, vname))
                 ELSE replace(cmd_template, Placeholder(vname), <<>>),
                 processed_vars)

\* Lines 678-681: the placeholder of every declared variable that is bound is
\* replaced in the template, in declaration order, from declaration i on.
RECURSIVE ExpandAlias(_, _, _, _)
ExpandAlias(variables, i, cmd_template, processed_vars) ==
    IF i > Len(variables) THEN cmd_template
    ELSE LET vname == variables[i].name
         IN  ExpandAlias(variables, i + 1,
                 IF HasKey(processed_vars, vname)
                 THEN replace(cmd_template, Placeholder(vname), ValueOf(processed_vars, vname))
                 ELSE cmd_template,
                 processed_vars)

\* Lines 683-684: full_cmd = f"{run_command} {cmd_template}".
full_cmd(run_command, cmd_template) == run_command \o <<" ">> \o cmd_template

\* The items of a binding map held as a function from names to values.  The
\* maps of the runs hold at most one name, so the order is immaterial.
RECURSIVE Items(_)
Items(d) ==
    IF DOMAIN d = {} THEN <<>>
    ELSE LET n == CHOOSE x \in DOMAIN d : TRUE
         IN  << <<<<n>>, d[n]>> >> \o Items([m \in DOMAIN d \ {n} |-> d[m]])

\* processed_vars after lines 673-676, as a function from names to values.
ProcessedMap(variables, var_values) ==
    LET items == TransformVars(variables, 1, Items(var_values))
    IN  [n \in DOMAIN var_values |-> ValueOf(items, <<n>>)]

\* ------------------------------------------------ spawned processes
\* What subprocess.run can do for a command line: exit 0 or non-zero with some
\* stdout, or fail to launch (rc -1 stands for the raised exception).  What a
\* program can print depends on the program (command[1]): `true` prints
\* nothing and exits 0.
Stdouts(program) ==
    IF program = "run" THEN {<<>>, <<"a", "\n">>}
    ELSE IF program = "list" THEN {<<"b">>, <<" ">>}
    ELSE IF program = "tags" THEN {<<"[", "/", "]", "\n">>}
    ELSE {<<>>, <<"a", "\n">>, <<"b">>, <<" ">>}

ProcOutcomes(command) ==
    IF command[1] = "true" THEN {[rc |-> 0, stdout |-> <<>>]}
    ELSE {[rc |-> 0, stdout |-> s] : s \in Stdouts(command[1])}
           \cup {[rc |-> 1, stdout |-> <<"a", "\n">>], [rc |-> -1, stdout |-> None]}

\* ------------------------------------------------------------ the state
\* frames: one entry per live call of run_flow_internal, keyed by its call
\*   path (<<>> is the top-level call; the call made for task i of the k-th
\*   stage of the call at p is at Append(p, <<k, i>>)); each entry holds the
\*   call's arguments, locals and position.
\*   `exited` is the order in which the processes of the stage in progress
\*   exited; `failed` is the set of <<stage number, task number>> of the
\*   call's tasks whose process exited non-zero or could not be launched
\*   (the errors printed to the console) or whose nested call was refused
\*   as too deep.
\* procs: the subprocesses running in the executor's worker threads.
\* cli: the caller of the code under study and what it holds: the flow-run
\*   command (its arguments, then the bindings of the run and how it ended),
\*   the definition and bindings handed to validate_flow and its verdict, the
\*   task whose template is expanded, or the text handed to strip_ansi_codes.
\* handles: the progress-reporting instances created so far, in order of
\*   creation: each is "started" or "stopped"; an instance is known by its
\*   number.
VARIABLES frames, procs, cli, handles

vars == <<frames, procs, cli, handles>>

\* progress = None: the call was given no handle.
NoHandle == 0

\* flow_depth > 5 is refused.
MaxDepth == 5

\* Values of the local `result` that are not a result dict.
Unbound   == [py |-> "unbound"]
PyNone    == [py |-> "None"]
Exception(error) == [py |-> "Exception", error |-> error]

IsDict(r) == "success" \in DOMAIN r

NewFrame(flow_def, var_values, progress, input_data, print_step_output, flow_depth) ==
    [flow_def |-> flow_def, var_values |-> var_values, progress |-> progress,
     input_data |-> input_data, print_step_output |-> print_step_output,
     flow_depth |-> flow_depth,
     new_progress_created |-> FALSE,
     pc |-> "entry",
     stage_index |-> 0,
     previous_stage_output |-> None,
     stage_results |-> <<>>,
     tasks |-> <<>>,
     task_index |-> 0,
     stage_tools_results |-> <<>>,
     current_input |-> None,
     coros |-> <<>>,
     exited |-> <<>>,
     failed |-> {},
     result |-> Unbound,
     error |-> "",
     ret |-> Unbound]

flow_order(f) == Get(f.flow_def, "flow", <<>>)
stages(f)     == Get(f.flow_def, "stages", <<>>)

\* The stage the for loop takes next (stage_index counts from 1).
NextStageName(f) == flow_order(f)[f.stage_index + 1].stage
NextStageDef(f)  == Get(stages(f), NextStageName(f), <<>>)
is_parallel(f)   == Get(NextStageDef(f), "parallel", FALSE)
distribution(f)  == Get(NextStageDef(f), "distribution", "broadcast")

pipe_input(task)  == Get(Get(task, "settings", <<>>), "pipe_input", TRUE)
pipe_output(task) == Get(Get(task, "settings", <<>>), "pipe_output", TRUE)

\* child_vars of a nested-flow task.
ChildVars(task, var_values) ==
    LET m == Get(task, "variables", <<>>)
    IN  [k \in DOMAIN m |->
           IF Len(m[k]) >= 2 /\ SubSeq(m[k], 1, 2) = <<"{", "{">>
           THEN Get(var_values, Name(SubSeq(m[k], 3, Len(m[k]) - 2)), m[k])
           ELSE m[k]]

\* str(task), the label of a broadcast task whose coroutine raised.
StrOf(task) == <<"str", task>>

\* console.print(text) renders text as console markup and raises MarkupError
\* for a closing tag that closes nothing; the texts here hold no opening tag.
MarkupError(text) ==
    \E i \in 1..(Len(text) - 2) : text[i] = "[" /\ text[i + 1] = "/" /\ text[i + 2] = "]"

\* Lines 746-748 and 751-755 (822-824 and 827-831): the step output is
\* printed inside the try block when it is asked for and not empty, and an
\* exception of the printing is caught like any other.
PrintRaises(print_step_output, stdout) ==
    print_step_output /\ Truthy(stdout) /\ MarkupError(strip(stdout))

\* The dict run_alias_async returns for a process outcome.
run_alias_result(tool_name, alias_name, print_step_output, outcome) ==
    IF outcome.rc # 0 \/ PrintRaises(print_step_output, outcome.stdout)
    THEN [output |-> <<>>, success |-> FALSE, tool |-> <<tool_name, ":", alias_name>>]
    ELSE [output |-> outcome.stdout, success |-> TRUE,
          tool |-> <<tool_name, ":", alias_name>>]

\* The dict run_command_async returns for a process outcome.
run_command_result(command, print_step_output, outcome) ==
    IF outcome.rc # 0 \/ PrintRaises(print_step_output, outcome.stdout)
    THEN [output |-> <<>>, success |-> FALSE, tool |-> <<"command", ":", command>>]
    ELSE [output |-> outcome.stdout, success |-> TRUE,
          tool |-> <<"command", ":", command>>]

\* The result of a nested-flow task whose flow file is missing (chained stage).
FlowNotFound(task) ==
    [output |-> <<>>, success |-> FALSE, tool |-> <<"flow", ":", task.flow, "(not found)">>]

\* The early return of a call that is nested too deep.
DepthExceeded ==
    [output |-> <<>>, success |-> FALSE, error |-> "Maximum flow nesting depth exceeded"]

IsException(r) == "py" \in DOMAIN r /\ r.py = "Exception"

ChildPath(p, k, i) == Append(p, <<k, i>>)

\* The live calls without those at the paths P (their results were taken).
Drop(fs, P) == [q \in DOMAIN fs \ P |-> fs[q]]

tool_name_of(task)  == Name(Split1(task.alias)[1])
alias_name_of(task) == Name(Split1(task.alias)[2])

\* `tool_name, alias_name = task['alias'].split(':', 1)` raises ValueError.
AliasSplitFails(task) ==
    "flow" \notin DOMAIN task /\ "alias" \in DOMAIN task /\ ~HasColon(task.alias)

HasKind(task) == DOMAIN task \cap {"flow", "alias", "command"} # {}

\* The coroutine created for task number i with the given input.  A
\* run_alias_async coroutine raises KeyError before it spawns anything when
\* the alias is not in the tool's aliases; a nested flow whose file is missing
\* gives asyncio.sleep(0) in a broadcast stage, whose result is None.
MakeCoro(task, i, input) ==
    IF "flow" \in DOMAIN task
    THEN IF load_flow(task.flow) # <<>>
         THEN [kind |-> "flow", task_no |-> i, st |-> "running", input |-> input,
               result |-> Unbound]
         ELSE [kind |-> "sleep", task_no |-> i, st |-> "done", input |-> input,
               result |-> PyNone]
    ELSE IF "alias" \in DOMAIN task
    THEN IF alias_name_of(task) \in DOMAIN load_tool(tool_name_of(task))[2]
         THEN [kind |-> "alias", task_no |-> i, st |-> "running", input |-> input,
               result |-> Unbound]
         ELSE [kind |-> "alias", task_no |-> i, st |-> "done", input |-> input,
               result |-> Exception("KeyError")]
    ELSE [kind |-> "command", task_no |-> i, st |-> "running", input |-> input,
          result |-> Unbound]

\* The subprocess a running alias or command coroutine hands to the executor.
\* The command line is the expanded template of the alias after the tool's
\* run_command, or the expanded command of the task.
ProcOf(p, k, task, c, print_step_output, var_values) ==
    [owner |-> p, stage |-> k, task_no |-> c.task_no, kind |-> c.kind,
     stdin |-> c.input, print_step_output |-> print_step_output,
     command |-> IF c.kind = "alias"
                 THEN LET tl        == load_tool(tool_name_of(task))
                          alias_def == tl[2][alias_name_of(task)]
                          variables == Get(alias_def, "variables", <<>>)
                      IN  <<Get(tl[1], "run_command", "None"),
                            ExpandAlias(variables, 1, Get(alias_def, "command", ""),
                                        TransformVars(variables, 1, Items(var_values)))>>
                 ELSE ExpandCommand(task.command, Items(var_values), 1),
     tool |-> IF c.kind = "alias"
              THEN <<tool_name_of(task), alias_name_of(task)>>
              ELSE <<ExpandCommand(task.command, Items(var_values), 1)>>]

\* The dict an alias coroutine of call p writes its transformed values to.
\* Without the copy of line 665 it is the dict of the call itself.
AliasVarsTarget_NoCopy(p) == [call |-> p, copy |-> FALSE]

\* Line 665: processed_vars is a copy of the call's var_values.
AliasVarsTarget(p) == [call |-> p, copy |-> TRUE]

\* Call f (at p) after the alias coroutines among cs have run lines 673-676:
\* its own map is written only if it is the dict they write to.
AfterAliasWrites(p, f, cs) ==
    LET writers == {j \in DOMAIN cs : cs[j].kind = "alias" /\ cs[j].st = "running"
                                        /\ AliasVarsTarget(p) = [call |-> p, copy |-> FALSE]}
    IN  IF writers = {} THEN f
        ELSE LET task      == f.tasks[cs[CHOOSE j \in writers : TRUE].task_no]
                 alias_def == load_tool(tool_name_of(task))[2][alias_name_of(task)]
             IN  [f EXCEPT !.var_values =
                               ProcessedMap(Get(alias_def, "variables", <<>>), @)]

\* ChildFrame that passes no progress handle on.
ChildFrame_OwnProgress(f, task, c) ==
    NewFrame(load_flow(task.flow), ChildVars(task, f.var_values), NoHandle, c.input,
             f.print_step_output,
             f.flow_depth + 1)

\* ChildFrame that always hands the incoming stage value to the nested flow.
ChildFrame_StageInput(f, task, c) ==
    NewFrame(load_flow(task.flow), ChildVars(task, f.var_values), f.progress,
             f.previous_stage_output,
             f.print_step_output,
             f.flow_depth + 1)

\* The call of run_flow_internal a nested-flow coroutine makes.
ChildFrame(f, task, c) ==
    NewFrame(load_flow(task.flow), ChildVars(task, f.var_values), f.progress, c.input,
             f.print_step_output,
             f.flow_depth + 1)

Spawns(c) == c.st = "running" /\ c.kind \in {"alias", "command"}
Calls(c)  == c.kind = "flow"

\* frames and procs after frame p (now f) has started the coroutines cs of
\* its stage k.
Started(p, f, k, cs) ==
    /\ frames' =
          [q \in DOMAIN frames \cup {ChildPath(p, k, cs[j].task_no) :
                                        j \in {x \in DOMAIN cs : Calls(cs[x])}} |->
             IF q = p THEN AfterAliasWrites(p, f, cs)
             ELSE IF \E j \in DOMAIN cs : Calls(cs[j]) /\ q = ChildPath(p, k, cs[j].task_no)
             THEN LET j == CHOOSE x \in DOMAIN cs :
                               Calls(cs[x]) /\ q = ChildPath(p, k, cs[x].task_no)
                  IN  ChildFrame(f, f.tasks[cs[j].task_no], cs[j])
             ELSE frames[q]]
    /\ procs' = procs \cup {ProcOf(p, k, f.tasks[cs[j].task_no], cs[j],
                                      f.print_step_output, f.var_values) :
                               j \in {x \in DOMAIN cs : Spawns(cs[x])}}

\* An exception of class error leaves the call.
Raise(f, error) == [f EXCEPT !.pc = "raised", !.error = error, !.coros = <<>>]

\* EndStage that keeps the older value when the stage produced no output.
EndStage_KeepsOlder(f, current_stage_output) ==
    [f EXCEPT !.previous_stage_output =
                  IF current_stage_output = None THEN @ ELSE current_stage_output,
              !.stage_results =
                  Append(@, <<flow_order(f)[f.stage_index].stage, f.stage_tools_results>>),
              !.pc = "stages",
              !.tasks = <<>>, !.task_index = 0, !.stage_tools_results = <<>>,
              !.current_input = None, !.coros = <<>>]

\* Lines 253-258: the stage's results are recorded and its output becomes the
\* next stage's input.  The per-stage locals are dead until the next stage
\* assigns them again.
EndStage(f, current_stage_output) ==
    [f EXCEPT !.previous_stage_output = current_stage_output,
              !.stage_results =
                  Append(@, <<flow_order(f)[f.stage_index].stage, f.stage_tools_results>>),
              !.pc = "stages",
              !.tasks = <<>>, !.task_index = 0, !.stage_tools_results = <<>>,
              !.current_input = None, !.coros = <<>>]

\* ---------------------------------------------------------------- actions
\* Lines 78-108: a call that was given no handle creates and starts one; the
\* first stage's input is the call's input.
SetUp(f) ==
    [f EXCEPT !.pc = "stages", !.previous_stage_output = f.input_data,
              !.progress = IF @ = NoHandle THEN Len(handles) + 1 ELSE @,
              !.new_progress_created = (f.progress = NoHandle)]

\* The handles after the set-up of call f.
HandlesAfterSetUp(f) ==
    IF f.progress = NoHandle THEN Append(handles, "started") ELSE handles

\* FlowEntry with the depth check off by one.
FlowEntry_OffByOne(p) ==
    /\ p \in DOMAIN frames
    /\ frames[p].pc = "entry"
    /\ LET f == frames[p] IN
        IF f.flow_depth > MaxDepth + 1
        THEN /\ frames' = [frames EXCEPT ![p] =
                              [f EXCEPT !.pc = "returned", !.ret = DepthExceeded]]
             /\ UNCHANGED handles
        ELSE /\ frames' = [frames EXCEPT ![p] = SetUp(f)]
             /\ handles' = HandlesAfterSetUp(f)
    /\ UNCHANGED procs

\* Lines 75-108: the depth check and the set-up of a call.
FlowEntry(p) ==
    /\ p \in DOMAIN frames
    /\ frames[p].pc = "entry"
    /\ LET f == frames[p] IN
        IF f.flow_depth > MaxDepth
        THEN /\ frames' = [frames EXCEPT ![p] =
                              [f EXCEPT !.pc = "returned", !.ret = DepthExceeded]]
             /\ UNCHANGED handles
        ELSE /\ frames' = [frames EXCEPT ![p] = SetUp(f)]
             /\ handles' = HandlesAfterSetUp(f)
    /\ UNCHANGED procs

\* BroadcastCoros that hands the stage value to every task, whatever its
\* settings.
RECURSIVE BroadcastCoros_AlwaysPipes(_, _, _)
BroadcastCoros_AlwaysPipes(tasks, i, previous_stage_output) ==
    IF i > Len(tasks) THEN <<>>
    ELSE LET task == tasks[i]
             rest == BroadcastCoros_AlwaysPipes(tasks, i + 1, previous_stage_output)
         IN  IF HasKind(task) THEN <<MakeCoro(task, i, previous_stage_output)>> \o rest
             ELSE rest

\* Lines 139-180: one coroutine per task that has a kind, in task order.
RECURSIVE BroadcastCoros(_, _, _)
BroadcastCoros(tasks, i, previous_stage_output) ==
    IF i > Len(tasks) THEN <<>>
    ELSE LET task == tasks[i]
             broadcast_input == IF pipe_input(task) THEN previous_stage_output ELSE None
             rest == BroadcastCoros(tasks, i + 1, previous_stage_output)
         IN  IF HasKind(task) THEN <<MakeCoro(task, i, broadcast_input)>> \o rest
             ELSE rest

\* Lines 110-182, parallel broadcast stage: every task's coroutine is created
\* and the call suspends in asyncio.gather.
BroadcastStage(p) ==
    /\ p \in DOMAIN frames
    /\ LET f == frames[p] IN
        /\ f.pc = "stages"
        /\ f.stage_index < Len(flow_order(f))
        /\ is_parallel(f) /\ distribution(f) = "broadcast"
        /\ LET k     == f.stage_index + 1
               tasks == Get(NextStageDef(f), "tasks", <<>>)
               g     == [f EXCEPT !.stage_index = k, !.tasks = tasks,
                                  !.stage_tools_results = <<>>]
           IN  IF \E i \in DOMAIN tasks : AliasSplitFails(tasks[i])
               THEN /\ frames' = [frames EXCEPT ![p] = Raise(g, "ValueError")]
                    /\ UNCHANGED procs
               ELSE LET cs == BroadcastCoros(tasks, 1, f.previous_stage_output)
                    IN  Started(p, [g EXCEPT !.pc = "gather", !.coros = cs, !.exited = <<>>], k, cs)

\* A coroutine has finished: its process has exited, or the nested call it
\* made has returned or raised.
CoroDone(p, k, c) ==
    IF Calls(c) THEN frames[ChildPath(p, k, c.task_no)].pc \in {"returned", "raised"}
    ELSE c.st = "done"

\* What awaiting the coroutine gives: a dict, None, or an exception.
CoroResult(p, k, c) ==
    IF Calls(c)
    THEN LET child == frames[ChildPath(p, k, c.task_no)]
         IN  IF child.pc = "raised" THEN Exception(child.error) ELSE child.ret
    ELSE c.result

\* The results in the order the processes exited (asyncio.as_completed), for
\* a stage whose coroutines all run a process.
GatherResults_AsCompleted(p, f) ==
    IF Len(f.exited) = Len(f.coros)
    THEN [j \in DOMAIN f.coros |->
            LET c == f.coros[CHOOSE x \in DOMAIN f.coros :
                                 f.coros[x].task_no = f.exited[j]]
            IN  CoroResult(p, f.stage_index, c)]
    ELSE [j \in DOMAIN f.coros |-> CoroResult(p, f.stage_index, f.coros[j])]

\* Line 182: asyncio.gather gives the results in the order of its arguments.
GatherResults(p, f) ==
    [j \in DOMAIN f.coros |-> CoroResult(p, f.stage_index, f.coros[j])]

\* Lines 183-193: zip(task_ids, results), from pair j on.  acc holds
\* stage_tools_results, combined_outputs, the local `result`, and whether
\* `result['success']` raised TypeError.
RECURSIVE GatherLoop(_, _, _, _)
GatherLoop(tasks, results, j, acc) ==
    IF j > Len(tasks) \/ j > Len(results) \/ acc.raised THEN acc
    ELSE LET result == results[j] IN
         IF IsException(result)
         THEN GatherLoop(tasks, results, j + 1,
                [acc EXCEPT !.result = result,
                            !.stage_tools_results =
                                Append(@, [output |-> <<>>, success |-> FALSE,
                                           tool |-> StrOf(tasks[j])])])
         ELSE IF ~IsDict(result)
         THEN [acc EXCEPT !.result = result,
                          !.stage_tools_results = Append(@, result),
                          !.raised = TRUE]
         ELSE GatherLoop(tasks, results, j + 1,
                [acc EXCEPT !.result = result,
                            !.stage_tools_results = Append(@, result),
                            !.combined_outputs =
                                IF result.success /\ Truthy(result.output)
                                THEN Append(@, strip(result.output)) ELSE @])

\* The tasks of the stage in progress whose nested call was refused by the
\* depth check.
DepthLimited(p, f) ==
    {<<f.stage_index, f.coros[j].task_no>> :
        j \in {x \in DOMAIN f.coros :
                 /\ Calls(f.coros[x])
                 /\ frames[ChildPath(p, f.stage_index, f.coros[x].task_no)].flow_depth
                        > MaxDepth}}

\* Some coroutine of the stage has finished (asyncio.wait, FIRST_COMPLETED).
GatherReady_Any(p, f) ==
    \E j \in DOMAIN f.coros : CoroDone(p, f.stage_index, f.coros[j])

\* Every coroutine of the stage has finished.
GatherReady(p, f) ==
    \A j \in DOMAIN f.coros : CoroDone(p, f.stage_index, f.coros[j])

\* The join of line 195 without its else branch.
BroadcastOutput_Joined(combined_outputs) == join(<<"\n">>, combined_outputs)

\* Line 195: current_stage_output of a broadcast stage.
BroadcastOutput(combined_outputs) ==
    IF combined_outputs # <<>> THEN join(<<"\n">>, combined_outputs) ELSE None

\* Lines 182-195 and 253-258: gather returns once every coroutine has
\* finished; the results are recorded in task order and joined.
BroadcastGather(p) ==
    /\ p \in DOMAIN frames
    /\ LET f == frames[p] IN
        /\ f.pc = "gather"
        /\ GatherReady(p, f)
        /\ LET k        == f.stage_index
               results  == GatherResults(p, f)
               acc      == GatherLoop(f.tasks, results, 1,
                               [stage_tools_results |-> <<>>, combined_outputs |-> <<>>,
                                result |-> f.result, raised |-> FALSE])
               g        == [f EXCEPT !.stage_tools_results = acc.stage_tools_results,
                                     !.result = acc.result,
                                     !.failed = @ \cup DepthLimited(p, f)]
               children == {ChildPath(p, k, f.coros[j].task_no) :
                               j \in {x \in DOMAIN f.coros : Calls(f.coros[x])}}
               current_stage_output == BroadcastOutput(acc.combined_outputs)
           IN  frames' = Drop([frames EXCEPT ![p] =
                                  IF acc.raised THEN Raise(g, "TypeError")
                                  ELSE EndStage(g, current_stage_output)],
                              children)
    /\ UNCHANGED procs

\* Lines 110-120 and 197-199, sequential chained stage: the running value
\* starts as the stage's input.
ChainedStage(p) ==
    /\ p \in DOMAIN frames
    /\ LET f == frames[p] IN
        /\ f.pc = "stages"
        /\ f.stage_index < Len(flow_order(f))
        /\ ~(is_parallel(f) /\ distribution(f) = "broadcast")
        /\ distribution(f) = "chained" /\ ~is_parallel(f)
        /\ frames' = [frames EXCEPT ![p] =
                         [f EXCEPT !.stage_index = @ + 1,
                                   !.tasks = Get(NextStageDef(f), "tasks", <<>>),
                                   !.task_index = 0,
                                   !.stage_tools_results = <<>>,
                                   !.current_input = f.previous_stage_output,
                                   !.pc = "chained"]]
    /\ UNCHANGED procs

\* ChainedRecord without the append of line 243.
ChainedRecord_NotAppended(f, task, result) ==
    LET g == [f EXCEPT !.result = result,
                       !.coros = <<>>]
    IN  IF ~IsDict(result) THEN Raise(g, "TypeError")
        ELSE [g EXCEPT !.current_input =
                           IF result.success /\ Truthy(result.output) /\ pipe_output(task)
                           THEN strip(result.output) ELSE None,
                       !.task_index = @ + 1,
                       !.pc = "chained"]

\* ChainedRecord without the else branch of line 248: a task that gives
\* nothing to pipe leaves the running value as it was.
ChainedRecord_KeepsInput(f, task, result) ==
    LET g == [f EXCEPT !.result = result,
                       !.stage_tools_results = Append(@, result),
                       !.coros = <<>>]
    IN  IF ~IsDict(result) THEN Raise(g, "TypeError")
        ELSE [g EXCEPT !.current_input =
                           IF result.success /\ Truthy(result.output) /\ pipe_output(task)
                           THEN strip(result.output) ELSE @,
                       !.task_index = @ + 1,
                       !.pc = "chained"]

\* ChainedRecord without the .strip() of line 247.
ChainedRecord_NoStrip(f, task, result) ==
    LET g == [f EXCEPT !.result = result,
                       !.stage_tools_results = Append(@, result),
                       !.coros = <<>>]
    IN  IF ~IsDict(result) THEN Raise(g, "TypeError")
        ELSE [g EXCEPT !.current_input =
                           IF result.success /\ Truthy(result.output) /\ pipe_output(task)
                           THEN result.output ELSE None,
                       !.task_index = @ + 1,
                       !.pc = "chained"]

\* Lines 242-249: the task's result is recorded and decides the running value.
ChainedRecord(f, task, result) ==
    LET g == [f EXCEPT !.result = result,
                       !.stage_tools_results = Append(@, result),
                       !.coros = <<>>]
    IN  IF ~IsDict(result) THEN Raise(g, "TypeError")
        ELSE [g EXCEPT !.current_input =
                           IF result.success /\ Truthy(result.output) /\ pipe_output(task)
                           THEN strip(result.output) ELSE None,
                       !.task_index = @ + 1,
                       !.pc = "chained"]

\* The input a chained task is given (lines 207-208).
ChainInput(f, task) == IF pipe_input(task) THEN f.current_input ELSE None

\* Lines 200-240: the next task of a chained stage is started and awaited.
\* A nested flow whose file is missing and a task without a kind have no
\* coroutine: lines 242-249 follow at once (the latter with the `result` left
\* by an earlier task, UnboundLocalError when there is none).
ChainedTask(p) ==
    /\ p \in DOMAIN frames
    /\ LET f == frames[p] IN
        /\ f.pc = "chained"
        /\ f.task_index < Len(f.tasks)
        /\ LET i    == f.task_index + 1
               task == f.tasks[i]
               c    == MakeCoro(task, i, ChainInput(f, task))
           IN  IF ~HasKind(task)
               THEN /\ frames' = [frames EXCEPT ![p] =
                                     IF f.result = Unbound THEN Raise(f, "UnboundLocalError")
                                     ELSE ChainedRecord(f, task, f.result)]
                    /\ UNCHANGED procs
               ELSE IF AliasSplitFails(task)
               THEN /\ frames' = [frames EXCEPT ![p] = Raise(f, "ValueError")]
                    /\ UNCHANGED procs
               ELSE IF c.kind = "sleep"
               THEN /\ frames' = [frames EXCEPT ![p] =
                                     ChainedRecord(f, task, FlowNotFound(task))]
                    /\ UNCHANGED procs
               ELSE Started(p, [f EXCEPT !.pc = "await", !.coros = <<c>>, !.exited = <<>>],
                            f.stage_index, <<c>>)

\* Lines 217-249: the awaited coroutine has finished; its exception leaves
\* the call, its result is recorded.
ChainedResume(p) ==
    /\ p \in DOMAIN frames
    /\ LET f == frames[p] IN
        /\ f.pc = "await"
        /\ GatherReady(p, f)
        /\ LET c      == f.coros[1]
               result == CoroResult(p, f.stage_index, c)
               h      == [f EXCEPT !.failed = @ \cup DepthLimited(p, f)]
               g      == IF IsException(result) THEN Raise(h, result.error)
                         ELSE ChainedRecord(h, f.tasks[c.task_no], result)
           IN  frames' = IF Calls(c)
                         THEN Drop([frames EXCEPT ![p] = g],
                                   {ChildPath(p, f.stage_index, c.task_no)})
                         ELSE [frames EXCEPT ![p] = g]
    /\ UNCHANGED procs

\* Lines 251-258: after the last task the running value is the stage output.
ChainedStageEnd(p) ==
    /\ p \in DOMAIN frames
    /\ LET f == frames[p] IN
        /\ f.pc = "chained"
        /\ f.task_index >= Len(f.tasks)
        /\ frames' = [frames EXCEPT ![p] = EndStage(f, f.current_input)]
    /\ UNCHANGED procs

\* Lines 110-135 and 253-258 when neither branch is taken (a stage that is
\* sequential with broadcast distribution, or parallel with chained): no task
\* runs and the stage output is None.
SkippedStage(p) ==
    /\ p \in DOMAIN frames
    /\ LET f == frames[p] IN
        /\ f.pc = "stages"
        /\ f.stage_index < Len(flow_order(f))
        /\ ~(is_parallel(f) /\ distribution(f) = "broadcast")
        /\ ~(distribution(f) = "chained" /\ ~is_parallel(f))
        /\ frames' = [frames EXCEPT ![p] =
                         EndStage([f EXCEPT !.stage_index = @ + 1,
                                            !.stage_tools_results = <<>>], None)]
    /\ UNCHANGED procs

\* Lines 260-264: the call returns its result.
FlowReturn(p) ==
    /\ p \in DOMAIN frames
    /\ LET f == frames[p] IN
        /\ f.pc = "stages"
        /\ f.stage_index >= Len(flow_order(f))
        /\ frames' = [frames EXCEPT ![p] =
                         [f EXCEPT !.pc = "returned",
                                   !.ret = [output |-> f.previous_stage_output,
                                            success |-> TRUE,
                                            stage_results |-> f.stage_results]]]
        /\ handles' = IF f.new_progress_created
                      THEN [handles EXCEPT ![f.progress] = "stopped"]
                      ELSE handles
    /\ UNCHANGED procs

\* The coroutine that spawned pr (lines 715-755, 790-831).
Awaits(f, pr) ==
    /\ f.pc \in {"gather", "await"}
    /\ f.stage_index = pr.stage

\* A subprocess exits (or could not be launched) and its coroutine returns
\* the result dict.
ProcessExit(pr) ==
    /\ pr \in procs
    /\ \E outcome \in ProcOutcomes(pr.command) :
          LET result == IF pr.kind = "alias"
                        THEN run_alias_result(pr.tool[1], pr.tool[2], pr.print_step_output,
                                              outcome)
                        ELSE run_command_result(pr.tool[1], pr.print_step_output, outcome)
          IN  frames' =
                IF pr.owner \in DOMAIN frames /\ Awaits(frames[pr.owner], pr)
                THEN [frames EXCEPT
                        ![pr.owner].coros =
                            [j \in DOMAIN @ |->
                               IF @[j].task_no = pr.task_no
                               THEN [@[j] EXCEPT !.st = "done", !.result = result]
                               ELSE @[j]],
                        ![pr.owner].exited = Append(@, pr.task_no),
                        ![pr.owner].failed =
                            IF outcome.rc # 0 THEN @ \cup {<<pr.stage, pr.task_no>>} ELSE @]
                ELSE frames
    /\ procs' = procs \ {pr}

\* ------------------------------------------------------------ validation
\* An f-string message: its text with {} for each substituted value.
Format(fmt, args) == [fmt |-> fmt, args |-> args]

\* os.path.isdir(tool_path): the tool has a directory under tools_dir.
IsToolDir(tool_name) == tool_name \in DOMAIN ToolFiles

\* isinstance(value, bool).  The settings of the task records are booleans.
IsBool(value) == value \in BOOLEAN

\* The settings (of the three that are checked) whose value is not a boolean.
NonBoolSettings(settings) ==
    {k \in DOMAIN settings \cap {"pipe_input", "pipe_output", "print_output"} :
        ~IsBool(settings[k])}

\* The first index from i on at which the character c occurs twice in a row
\* (0 when there is none).
RECURSIVE FindPair(_, _, _)
FindPair(chars, c, i) ==
    IF i + 1 > Len(chars) THEN 0
    ELSE IF chars[i] = c /\ chars[i + 1] = c THEN i
    ELSE FindPair(chars, c, i + 1)

\* re.compile(r"{{(.*?)}}").findall(cmd), scanning from index i: the texts
\* between each {{ and the nearest }} after it (. does not match a newline).
RECURSIVE findall(_, _)
findall(cmd, i) ==
    LET a == FindPair(cmd, "{", i) IN
    IF a = 0 THEN <<>>
    ELSE LET b == FindPair(cmd, "}", a + 2) IN
         IF b = 0 THEN <<>>
         ELSE IF \E j \in (a + 2)..(b - 1) : cmd[j] = "\n" THEN findall(cmd, a + 1)
         ELSE <<SubSeq(cmd, a + 2, b - 1)>> \o findall(cmd, b + 2)

\* Lines 553-613: (valid, message) for one task record.
validate_task(task, var_values) ==
    IF "alias" \in DOMAIN task
    THEN LET alias_str == task.alias IN
         IF ~HasColon(alias_str)
         THEN <<FALSE, Format("Alias '{}' not in 'tool:alias' format", <<alias_str>>)>>
         ELSE LET tool_name   == tool_name_of(task)
                  alias_name  == alias_name_of(task)
                  tool_config == load_tool(tool_name)[1]
                  settings    == Get(task, "settings", <<>>)
                  header_flag == Get(tool_config, "header_flag", "")
                  accepts_stdin ==
                      IF header_flag # "" THEN Get(tool_config, "accepts_stdin", TRUE)
                      ELSE TRUE
              IN  IF ~IsToolDir(tool_name)
                  THEN <<FALSE, Format("Tool '{}' directory not found", <<tool_name>>)>>
                  ELSE IF alias_name \notin DOMAIN load_tool(tool_name)[2]
                  THEN <<FALSE, Format("Alias '{}' not found in tool '{}'.",
                                       <<alias_name, tool_name>>)>>
                  ELSE IF "settings" \notin DOMAIN task THEN <<TRUE, None>>
                  ELSE IF Get(settings, "pipe_input", FALSE) /\ ~accepts_stdin
                  THEN <<FALSE, Format("Tool '{}' does not accept stdin, but pipe_input is true",
                                       <<tool_name>>)>>
                  ELSE IF NonBoolSettings(settings) # {}
                  THEN <<FALSE, Format("Setting '{}' must be a boolean",
                                       <<CHOOSE k \in NonBoolSettings(settings) : TRUE>>)>>
                  ELSE <<TRUE, None>>
    ELSE IF "command" \in DOMAIN task
    THEN LET vars_in_cmd == findall(task.command, 1)
             unbound     == SelectSeq(vars_in_cmd,
                                      LAMBDA v : Name(strip(v)) \notin DOMAIN var_values)
             settings    == Get(task, "settings", <<>>)
         IN  IF unbound # <<>>
             THEN <<FALSE, Format("Variable '{}' not provided for command task",
                                  <<Head(unbound)>>)>>
             ELSE IF NonBoolSettings(settings) # {}
             THEN <<FALSE, Format("Setting '{}' must be a boolean in command task",
                                  <<CHOOSE k \in NonBoolSettings(settings) : TRUE>>)>>
             ELSE <<TRUE, None>>
    ELSE IF "flow" \in DOMAIN task
    THEN LET child_vars == Get(task, "variables", <<>>)
             missing    == {k \in DOMAIN child_vars :
                               /\ Len(child_vars[k]) >= 2
                               /\ SubSeq(child_vars[k], 1, 2) = <<"{", "{">>
                               /\ Name(SubSeq(child_vars[k], 3, Len(child_vars[k]) - 2))
                                      \notin DOMAIN var_values}
         IN  IF load_flow(task.flow) = <<>>
             THEN <<FALSE, Format("Referenced flow '{}' not found", <<task.flow>>)>>
             ELSE IF missing # {}
             THEN <<FALSE, Format("Parent variable '{}' not found",
                                  <<child_vars[CHOOSE k \in missing : TRUE]>>)>>
             ELSE <<TRUE, None>>
    ELSE <<FALSE, Format("Task must have either 'alias' or 'command' key.", <<>>)>>

\* The first task from number i on that validate_task refuses: its verdict,
\* or (True, None) when every task passes.
RECURSIVE ValidateTasks(_, _, _)
ValidateTasks(tasks, var_values, i) ==
    IF i > Len(tasks) THEN <<TRUE, None>>
    ELSE LET checked == validate_task(tasks[i], var_values)
         IN  IF ~checked[1] THEN checked ELSE ValidateTasks(tasks, var_values, i + 1)

\* Line 640 with the flag negated.
NotAllowed_Sequential(is_par, dist) == ~is_par /\ dist = "chained"

\* Line 640: parallel + chained.
NotAllowed(is_par, dist) == is_par /\ dist = "chained"

\* Lines 626-649: the loop over the flow order, from entry n on.
RECURSIVE ValidateEntries(_, _, _)
ValidateEntries(flow_def, var_values, n) ==
    LET sts   == Get(flow_def, "stages", <<>>)
        order == Get(flow_def, "flow", <<>>)
    IN  IF n > Len(order) THEN <<TRUE, None>>
        ELSE LET stage_entry == order[n] IN
             IF "stage" \notin DOMAIN stage_entry
             THEN <<FALSE, Format("Stage entry missing 'stage' field", <<>>)>>
             ELSE LET stage_name == stage_entry.stage IN
                  IF stage_name \notin DOMAIN sts
                  THEN <<FALSE, Format("Stage '{}' not defined in stages", <<stage_name>>)>>
                  ELSE LET stage_def == sts[stage_name]
                           tasks     == Get(stage_def, "tasks", <<>>)
                           dist      == Get(stage_def, "distribution", "broadcast")
                           is_par    == Get(stage_def, "parallel", FALSE)
                           checked   == ValidateTasks(tasks, var_values, 1)
                       IN  IF tasks = <<>>
                           THEN <<FALSE, Format("Stage '{}' has no 'tasks' defined.",
                                                <<stage_name>>)>>
                           ELSE IF NotAllowed(is_par, dist)
                           THEN <<FALSE,
                                  Format("Stage '{}' is parallel with distribution='chained' which is not allowed.",
                                         <<stage_name>>)>>
                           ELSE IF ~checked[1]
                           THEN <<FALSE, Format("In stage '{}': {}", <<stage_name, checked[2]>>)>>
                           ELSE ValidateEntries(flow_def, var_values, n + 1)

\* Lines 616-651: (valid, message) for a flow definition.
validate_flow(flow_def, var_values) ==
    IF Get(flow_def, "stages", <<>>) = <<>>
    THEN <<FALSE, Format("No stages defined in flow", <<>>)>>
    ELSE IF Get(flow_def, "flow", <<>>) = <<>>
    THEN <<FALSE, Format("No flow order defined", <<>>)>>
    ELSE ValidateEntries(flow_def, var_values, 1)

\* ------------------------------------------------------- specification
\* input_data of the top-level call.
Inputs == {None, <<"x">>}

Init ==
    /\ \E flow_def \in RootFlows, input_data \in Inputs :
          frames = [q \in {<<>>} |-> NewFrame(flow_def, <<>>, NoHandle, input_data, FALSE, 0)]
    /\ procs = {}
    /\ cli = [pc |-> "engine"]
    /\ handles = <<>>

Next ==
    \/ \E p \in DOMAIN frames : FlowEntry(p) /\ UNCHANGED cli
    \/ \E p \in DOMAIN frames : BroadcastStage(p) /\ UNCHANGED <<cli, handles>>
    \/ \E p \in DOMAIN frames : BroadcastGather(p) /\ UNCHANGED <<cli, handles>>
    \/ \E p \in DOMAIN frames : ChainedStage(p) /\ UNCHANGED <<cli, handles>>
    \/ \E p \in DOMAIN frames : ChainedTask(p) /\ UNCHANGED <<cli, handles>>
    \/ \E p \in DOMAIN frames : ChainedResume(p) /\ UNCHANGED <<cli, handles>>
    \/ \E p \in DOMAIN frames : ChainedStageEnd(p) /\ UNCHANGED <<cli, handles>>
    \/ \E p \in DOMAIN frames : SkippedStage(p) /\ UNCHANGED <<cli, handles>>
    \/ \E p \in DOMAIN frames : FlowReturn(p) /\ UNCHANGED cli
    \/ \E pr \in procs : ProcessExit(pr) /\ UNCHANGED <<cli, handles>>

Spec == Init /\ [][Next]_vars

\* The size of the flow orders given to the validator.
MaxEntries == 2

\* A command with the placeholder {{t}}.
CmdT == [command |-> <<"e", "c", "h", "o", " ", "{", "{", "t", "}", "}">>]

\* An alias task with pipe_input set.
AliasPiped(ref) == [alias |-> ref, settings |-> [pipe_input |-> TRUE]]

\* A flow task that maps the nested flow's variable u to value.
FlowRef(value) == [flow |-> "sub", variables |-> [u |-> value]]

\* The stage definitions of the flows given to the validator.
StageDefs ==
    {Stage(FALSE, "chained", <<Cmd("run"), Alias(AliasOk)>>),
     Stage(TRUE, "chained", <<Cmd("run")>>),
     Stage(TRUE, "chained", <<>>),
     Stage(TRUE, "chained", <<Untyped>>),
     Stage(FALSE, "chained", <<Cmd("run"), TwoKinds>>),
     Stage(FALSE, "chained", <<FlowRef(<<"{", "{", "t", "}", "}">>)>>),
     Stage(FALSE, "chained", <<FlowRef(<<"{", "{", "t", "}", "}", "/", "a">>)>>),
     Stage(FALSE, "chained", <<FlowT("ghost")>>),
     Stage(FALSE, "chained", <<AliasPiped(<<"curl", ":", "get">>)>>),
     Stage(FALSE, "chained", <<AliasPiped(<<"dig", ":", "short">>)>>),
     Stage(TRUE, "broadcast", <<FlowT("sub"), Alias(AliasMissing)>>),
     [tasks |-> <<CmdT>>]}

\* Entries of a flow order: a defined or undefined stage, or no 'stage' key.
StageEntries == {[stage |-> "s1"], [stage |-> "s2"], [stage |-> "zz"], [step |-> "s1"]}

\* The flow definitions and bindings validate_flow is applied to.
ValidatedFlows ==
    {[name |-> "v", stages |-> sts, flow |-> order] :
        sts \in UNION {[names -> StageDefs] : names \in {{}, {"s1"}, {"s1", "s2"}}},
        order \in SeqsUpTo(StageEntries, MaxEntries)}

Bindings == {<<>>, [t |-> <<"x">>]}

ValidateInit ==
    /\ frames = <<>>
    /\ procs = {}
    /\ handles = <<>>
    /\ \E flow_def \in ValidatedFlows, var_values \in Bindings :
          cli = [pc |-> "loaded", flow_def |-> flow_def, var_values |-> var_values,
                 valid |-> FALSE, error_msg |-> None]

\* Line 921: valid, error_msg = validate_flow(flow_def, var_values).
ValidateFlow ==
    /\ cli.pc = "loaded"
    /\ LET checked == validate_flow(cli.flow_def, cli.var_values)
       IN  cli' = [cli EXCEPT !.pc = "validated", !.valid = checked[1],
                              !.error_msg = checked[2]]
    /\ UNCHANGED <<frames, procs, handles>>

ValidateSpec == ValidateInit /\ [][ValidateFlow]_vars

\* ------------------------------------------------- the flow-run command
\* arg.startswith('--')
StartsWithDashes(arg) == Len(arg) >= 2 /\ arg[1] = "-" /\ arg[2] = "-"

\* arg.lstrip('-')
RECURSIVE lstrip_dashes(_)
lstrip_dashes(arg) ==
    IF arg # <<>> /\ Head(arg) = "-" THEN lstrip_dashes(Tail(arg)) ELSE arg

\* Lines 886-903 without the else branch of line 897: a --name that ends the
\* list is dropped.
RECURSIVE ParseArgs_DropsDangling(_, _, _)
ParseArgs_DropsDangling(unknown_args, i, user_vars) ==
    IF i > Len(unknown_args) THEN [ok |-> TRUE, user_vars |-> user_vars]
    ELSE LET arg == unknown_args[i] IN
         IF StartsWithDashes(arg)
         THEN LET var_name == Name(lstrip_dashes(arg)) IN
              IF i + 1 <= Len(unknown_args)
              THEN ParseArgs_DropsDangling(unknown_args, i + 2,
                             [n \in DOMAIN user_vars \cup {var_name} |->
                                IF n = var_name THEN unknown_args[i + 1] ELSE user_vars[n]])
              ELSE [ok |-> TRUE, user_vars |-> user_vars]
         ELSE [ok |-> FALSE, message |-> Format("Unexpected argument: {}", <<arg>>)]

\* Lines 886-903: the extra arguments from position i on, read as
\* --name value pairs into user_vars; a later pair overrides an earlier one.
RECURSIVE ParseArgs(_, _, _)
ParseArgs(unknown_args, i, user_vars) ==
    IF i > Len(unknown_args) THEN [ok |-> TRUE, user_vars |-> user_vars]
    ELSE LET arg == unknown_args[i] IN
         IF StartsWithDashes(arg)
         THEN LET var_name == Name(lstrip_dashes(arg)) IN
              IF i + 1 <= Len(unknown_args)
              THEN ParseArgs(unknown_args, i + 2,
                             [n \in DOMAIN user_vars \cup {var_name} |->
                                IF n = var_name THEN unknown_args[i + 1] ELSE user_vars[n]])
              ELSE [ok |-> FALSE,
                    message |-> Format("No value provided for variable '{}'", <<var_name>>)]
         ELSE [ok |-> FALSE, message |-> Format("Unexpected argument: {}", <<arg>>)]

\* Lines 915-919: the first header without a colon, 0 when there is none.
RECURSIVE BadHeader(_, _)
BadHeader(headers, i) ==
    IF i > Len(headers) THEN 0
    ELSE IF ~HasColon(headers[i]) THEN i
    ELSE BadHeader(headers, i + 1)

\* The extra arguments, headers and prompt answers a command is given.
ArgLists ==
    {<<>>, << <<"-", "-", "t">>, <<"v">> >>, << <<"-", "-", "t">> >>, << <<"t">>, <<"v">> >>,
     << <<"-", "-", "t">>, <<"a">>, <<"-", "-", "t">>, <<"b">> >>,
     << <<"-", "-", "t">>, <<"v">>, <<"x">> >>,
     << <<"-", "-", "z">>, <<"v">> >>,
     << <<"-", "-", "z">>, <<"v">>, <<"-", "-", "t">>, <<"w">> >>}

HeaderLists == {<<>>, << <<"A", ":", "b">> >>, << <<"A">> >>}

Answers == {<<"p">>}

FlowNames == DOMAIN FlowFiles \cup {"ghost"}

CliInit ==
    /\ frames = <<>>
    /\ procs = {}
    /\ handles = <<>>
    /\ \E flow_name \in FlowNames, args \in ArgLists, headers \in HeaderLists,
          print_step_output \in BOOLEAN :
          cli = [pc |-> "invoked", flow_name |-> flow_name, args |-> args,
                 headers |-> headers, print_step_output |-> print_step_output]

\* Lines 905-911 with every command-line assignment kept.
VarValues_KeepsAll(flow_vars, user_vars, prompted) ==
    [n \in DOMAIN flow_vars \cup DOMAIN user_vars |->
        IF n \in DOMAIN user_vars THEN user_vars[n] ELSE prompted[n]]

\* Lines 905-911: var_values has a value for every declared variable, from
\* the command line or else from the prompt.
VarValues(flow_vars, user_vars, prompted) ==
    [n \in DOMAIN flow_vars |->
        IF n \in DOMAIN user_vars THEN user_vars[n] ELSE prompted[n]]

\* The command has stopped after printing the message.
Stopped(message) == [pc |-> "stopped", message |-> message]

\* The command without the check of line 922: it runs the flow whatever
\* validate_flow has returned.
FlowRunCommand_SkipsValidation ==
    /\ cli.pc = "invoked"
    /\ LET flow_def  == load_flow(cli.flow_name)
           parsed    == ParseArgs(cli.args, 1, <<>>)
           flow_vars == Get(flow_def, "variables", <<>>)
       IN  IF flow_def = <<>>
           THEN /\ cli' = Stopped(Format("Flow '{}' not found.", <<cli.flow_name>>))
                /\ UNCHANGED <<frames, procs, handles>>
           ELSE IF ~parsed.ok
           THEN /\ cli' = Stopped(parsed.message)
                /\ UNCHANGED <<frames, procs, handles>>
           ELSE \E prompted \in [DOMAIN flow_vars \ DOMAIN parsed.user_vars -> Answers] :
                  LET var_values == VarValues(flow_vars, parsed.user_vars, prompted)
                  IN  IF BadHeader(cli.headers, 1) # 0
                      THEN /\ cli' = Stopped(Format("Invalid header format: '{}'. Use 'Key:Value'",
                                                    <<cli.headers[BadHeader(cli.headers, 1)]>>))
                           /\ UNCHANGED <<frames, procs, handles>>
                      ELSE /\ cli' = [pc |-> "running", flow_name |-> cli.flow_name,
                                      var_values |-> var_values, valid |-> TRUE]
                           /\ handles' = Append(handles, "started")
                           /\ frames' = [q \in {<<>>} |->
                                            NewFrame(flow_def, var_values, Len(handles) + 1,
                                                     None, cli.print_step_output, 0)]
                           /\ UNCHANGED procs

\* Lines 875-947, up to the first suspension of run_flow_internal: the flow is
\* loaded, the arguments and headers are read, the declared variables get
\* their values (from the arguments, else from the prompt), the flow is
\* validated, and only then the top-level handle is created and started and
\* run_flow_internal is called with no input.
FlowRunCommand ==
    /\ cli.pc = "invoked"
    /\ LET flow_def  == load_flow(cli.flow_name)
           parsed    == ParseArgs(cli.args, 1, <<>>)
           flow_vars == Get(flow_def, "variables", <<>>)
       IN  IF flow_def = <<>>
           THEN /\ cli' = Stopped(Format("Flow '{}' not found.", <<cli.flow_name>>))
                /\ UNCHANGED <<frames, procs, handles>>
           ELSE IF ~parsed.ok
           THEN /\ cli' = Stopped(parsed.message)
                /\ UNCHANGED <<frames, procs, handles>>
           ELSE \E prompted \in [DOMAIN flow_vars \ DOMAIN parsed.user_vars -> Answers] :
                  LET var_values == VarValues(flow_vars, parsed.user_vars, prompted)
                      checked    == validate_flow(flow_def, var_values)
                  IN  IF BadHeader(cli.headers, 1) # 0
                      THEN /\ cli' = Stopped(Format("Invalid header format: '{}'. Use 'Key:Value'",
                                                    <<cli.headers[BadHeader(cli.headers, 1)]>>))
                           /\ UNCHANGED <<frames, procs, handles>>
                      ELSE IF ~checked[1]
                      THEN /\ cli' = Stopped(checked[2])
                           /\ UNCHANGED <<frames, procs, handles>>
                      ELSE /\ cli' = [pc |-> "running", flow_name |-> cli.flow_name,
                                      var_values |-> var_values, valid |-> TRUE]
                           /\ handles' = Append(handles, "started")
                           /\ frames' = [q \in {<<>>} |->
                                            NewFrame(flow_def, var_values, Len(handles) + 1,
                                                     None, cli.print_step_output, 0)]
                           /\ UNCHANGED procs

\* A StageResult entry the summary can print: it has a 'tool' label.
Printable(stage_results) ==
    \A n \in DOMAIN stage_results : \A j \in DOMAIN stage_results[n][2] :
        "tool" \in DOMAIN stage_results[n][2][j]

\* Lines 938-986: run_flow_internal has returned; the handle is stopped and
\* the summary is printed, reading 'success' and 'tool' of every entry.
FlowRunSummary ==
    /\ cli.pc = "running"
    /\ <<>> \in DOMAIN frames
    /\ frames[<<>>].pc = "returned"
    /\ handles' = [handles EXCEPT ![frames[<<>>].progress] = "stopped"]
    /\ cli' = [cli EXCEPT !.pc = IF Printable(frames[<<>>].ret.stage_results)
                                  THEN "done" ELSE "crashed"]
    /\ UNCHANGED <<frames, procs>>

\* Line 1006: an exception that left run_flow_internal leaves asyncio.run and
\* the command.
FlowRunRaised ==
    /\ cli.pc = "running"
    /\ <<>> \in DOMAIN frames
    /\ frames[<<>>].pc = "raised"
    /\ cli' = [cli EXCEPT !.pc = "crashed"]
    /\ UNCHANGED <<frames, procs, handles>>

CliNext ==
    \/ FlowRunCommand
    \/ FlowRunSummary
    \/ FlowRunRaised
    \/ Next

CliSpec == CliInit /\ [][CliNext]_vars

\* ------------------------------------------- the expansion of one task
\* The templates, declarations and bindings of the expanded tasks.
Templates ==
    {<<"{", "{", "a", "}", "}">>,
     <<"{", "{", "b", "}", "}", " ", "{", "{", "a", "}", "}">>,
     <<"-", "u", " ", "{", "{", "u", "}", "}">>,
     <<"{", "{", " ", "a", " ", "}", "}">>,
     <<"x">>}

URLs ==
    {<<"h", "t", "t", "p", "s", ":", "/", "/", "w", "w", "w", ".", "e", "x", "a", "m", "p", "l", "e", ".", "c", "o", "m", "/", "p", "a", "t", "h">>,
     <<"h", "t", "t", "p", "s", ":", "/", "/", "e", "x", "a", "m", "p", "l", "e", ".", "c", "o", "m">>,
     <<"h", "t", "t", "p", ":", "/", "/", "w", "w", "w", ".", "e", "x", "a", "m", "p", "l", "e", ".", "c", "o", "m", ":", "8", "0", "8", "0", "/", "x">>,
     <<"w", "w", "w", ".", "e", "x", "a", "m", "p", "l", "e", ".", "c", "o", "m", "/", "p", "a", "t", "h">>,
     <<"h", "t", "t", "p", "s", ":", "/", "/", "w", "w", "w", ".", "w", "w", "w", ".", "e", "x", "a", "m", "p", "l", "e", ".", "c", "o", "m", "?", "q">>}

VarA   == <<"a">>
VarB   == <<"b">>
VarUrl == <<"u">>

Declarations ==
    {<<>>, <<[name |-> VarA]>>, <<[name |-> VarA], [name |-> VarB]>>,
     <<[name |-> VarUrl, transform |-> "url_to_domain"]>>,
     <<[name |-> VarUrl]>>,
     <<[name |-> VarUrl, transform |-> "upper"]>>,
     <<[name |-> VarB], [name |-> VarUrl, transform |-> "url_to_domain"]>>}

\* The items a binding map may hold for one name: none, or one value.
ItemsOf(name, values) == {<<>>} \cup {<< <<name, v>> >> : v \in values}

BindingMaps ==
    {a \o b \o u : a \in ItemsOf(VarA, {<<"v">>, Placeholder(VarB)}),
                   b \in ItemsOf(VarB, {<<"w">>, Placeholder(VarA)}),
                   u \in ItemsOf(VarUrl, URLs)}

ExpandInit ==
    /\ frames = <<>>
    /\ procs = {}
    /\ handles = <<>>
    /\ \E kind \in {"command", "alias"}, template \in Templates,
          variables \in Declarations, var_values \in BindingMaps :
          /\ kind = "command" => variables = <<>>
          /\ cli = [pc |-> "task", kind |-> kind, template |-> template,
                    variables |-> variables, var_values |-> var_values]

\* run_command_async up to the launch of the process (lines 767-769).
RunCommandExpand ==
    /\ cli.pc = "task" /\ cli.kind = "command"
    /\ cli' = [pc |-> "expanded", kind |-> "command", task_command |-> cli.template,
                template |-> ExpandCommand(cli.template, cli.var_values, 1),
                variables |-> cli.variables, var_values |-> cli.var_values]
    /\ UNCHANGED <<frames, procs, handles>>

\* run_alias_async up to the launch of the process (lines 662-684); the tool's
\* run_command is nmap and it has no header flag.
RunAliasExpand ==
    /\ cli.pc = "task" /\ cli.kind = "alias"
    /\ LET processed_vars == TransformVars(cli.variables, 1, cli.var_values)
       IN  cli' = [pc |-> "expanded", kind |-> "alias", template |-> cli.template,
                   variables |-> cli.variables, var_values |-> cli.var_values,
                   processed_vars |-> processed_vars,
                   full_cmd |-> full_cmd(<<"n", "m", "a", "p">>,
                                   ExpandAlias(cli.variables, 1, cli.template, processed_vars))]
    /\ UNCHANGED <<frames, procs, handles>>

ExpandNext == RunCommandExpand \/ RunAliasExpand

ExpandSpec == ExpandInit /\ [][ExpandNext]_vars

\* ------------------------------------------------------ strip_ansi_codes
\* The characters of the texts, with their code points; "ESC" is \x1B.
Ord == [ESC |-> 27, SP |-> 32, zero |-> 48, A |-> 65, bracket |-> 91, m |-> 109]

Chars == DOMAIN Ord

InClass(c, lo, hi) == lo <= Ord[c] /\ Ord[c] <= hi

\* The number of leading characters of s with code points lo..hi.
RECURSIVE Run(_, _, _)
Run(s, lo, hi) ==
    IF s # <<>> /\ InClass(Head(s), lo, hi) THEN 1 + Run(Tail(s), lo, hi) ELSE 0

\* Line 33, the length of the match of
\*   \x1B(?:[@-Z\\-_]|\[[0-?]*[ -/]*[@-~])
\* at the start of s, 0 when there is none.  The three classes of the second
\* alternative are disjoint, so the greedy match is the only one.
MatchLen(s) ==
    IF Len(s) < 2 \/ Ord[s[1]] # 27 THEN 0
    ELSE IF InClass(s[2], 64, 90) \/ InClass(s[2], 92, 95) THEN 2
    ELSE IF Ord[s[2]] # 91 THEN 0
    ELSE LET params == Run(SubSeq(s, 3, Len(s)), 48, 63)
             inter  == Run(SubSeq(s, 3 + params, Len(s)), 32, 47)
             final  == 3 + params + inter
         IN  IF final <= Len(s) /\ InClass(s[final], 64, 126) THEN final ELSE 0

\* Line 34: ansi_escape.sub('', text), the matches found left to right in one
\* pass over text.
RECURSIVE strip_ansi_codes(_)
strip_ansi_codes(text) ==
    IF text = <<>> THEN text
    ELSE LET n == MatchLen(text)
         IN  IF n > 0 THEN strip_ansi_codes(SubSeq(text, n + 1, Len(text)))
             ELSE <<Head(text)>> \o strip_ansi_codes(Tail(text))

MaxText == 4

Texts == UNION {[1..n -> Chars] : n \in 0..MaxText}

StripInit ==
    /\ frames = <<>>
    /\ procs = {}
    /\ handles = <<>>
    /\ \E text \in Texts : cli = [pc |-> "text", text |-> text]

\* output = strip_ansi_codes(proc.stdout)
StripOnce ==
    /\ cli.pc = "text"
    /\ cli' = [pc |-> "once", text |-> cli.text, once |-> strip_ansi_codes(cli.text)]
    /\ UNCHANGED <<frames, procs, handles>>

\* strip_ansi_codes applied to its own result.
StripTwice ==
    /\ cli.pc = "once"
    /\ cli' = [pc |-> "twice", text |-> cli.text, once |-> cli.once,
               twice |-> strip_ansi_codes(cli.once)]
    /\ UNCHANGED <<frames, procs, handles>>

StripNext == StripOnce \/ StripTwice

StripSpec == StripInit /\ [][StripNext]_vars

\* ------------------------------------------- the command line of an alias
\* Lines 436 and 689: f' {header_flag} "{key}: {value}"'.
HeaderArg(header_flag, key, value) ==
    <<" ", header_flag, " ", "\"">> \o key \o <<":", " ">> \o value \o <<"\"">>

\* The loop of lines 688-689 that stops after the first header.
AppendHeaders_Once(cmd, header_flag, headers, i) ==
    IF i > Len(headers) THEN cmd
    ELSE cmd \o HeaderArg(header_flag, headers[i][1], headers[i][2])

\* Lines 688-689 (and 429-436): the loop over the (key, value) pairs, from
\* header i on.
RECURSIVE AppendHeaders(_, _, _, _)
AppendHeaders(cmd, header_flag, headers, i) ==
    IF i > Len(headers) THEN cmd
    ELSE AppendHeaders(cmd \o HeaderArg(header_flag, headers[i][1], headers[i][2]),
                       header_flag, headers, i + 1)

\* Lines 433-436 (and 918-919): key, value = header.split(':', 1), each
\* stripped.
ParsedHeaders(headers) ==
    [i \in DOMAIN headers |-> <<strip(Split1(headers[i])[1]), strip(Split1(headers[i])[2])>>]

\* The alias references, arguments, bindings and headers of the calls.
AliasRefs ==
    {<<"curl", ":", "get">>, <<"dig", ":", "short">>, <<"wget", ":", "get">>, AliasHost,
     AliasMissing, AliasNoColon}

ExecArgs == {<<>>, << <<"x">> >>}

RawHeaders == {<<"A", ":", "b">>, <<" ", "C", " ", ":", " ", "d">>, <<"E">>}

MaxHeaders == 2

ParsedPairs == {<< <<"A">>, <<"b">> >>, << <<"C">>, <<"d">> >>}

ComposeInit ==
    /\ frames = <<>>
    /\ procs = {}
    /\ handles = <<>>
    /\ \/ \E alias_name \in AliasRefs, args \in ExecArgs,
             headers \in SeqsUpTo(RawHeaders, MaxHeaders) :
             cli = [pc |-> "exec_command", alias_name |-> alias_name, args |-> args,
                    headers |-> headers]
       \/ \E alias_name \in AliasRefs \ {AliasNoColon},
             var_values \in {<<>>, << <<<<"t">>, <<"x">>>> >>},
             headers \in SeqsUpTo(ParsedPairs, MaxHeaders) :
             cli = [pc |-> "run_alias_async", alias_name |-> alias_name,
                    var_values |-> var_values, headers |-> headers]

\* Lines 393-441: exec_command.
ExecCommand ==
    /\ cli.pc = "exec_command"
    /\ UNCHANGED <<frames, procs, handles>>
    /\ IF ~HasColon(cli.alias_name)
       THEN cli' = Stopped(Format("Please specify alias as tool:alias_name", <<>>))
       ELSE LET tool_name    == Name(Split1(cli.alias_name)[1])
                alias_key    == Name(Split1(cli.alias_name)[2])
                tool_config  == load_tool(tool_name)[1]
                tool_aliases == load_tool(tool_name)[2]
            IN  IF alias_key \notin DOMAIN tool_aliases
                THEN cli' = Stopped(Format("Alias '{}' not found in tool '{}'.",
                                           <<alias_key, tool_name>>))
                ELSE LET alias_def == tool_aliases[alias_key]
                         variables == Get(alias_def, "variables", <<>>)
                         var_map   == [i \in DOMAIN variables |->
                                          <<variables[i].name, cli.args[i]>>]
                         run_command == Get(tool_config, "run_command", "")
                         header_flag == Get(tool_config, "header_flag", "")
                     IN  IF Len(cli.args) < Len(variables)
                         THEN cli' = Stopped(Format("Not all variables provided.", <<>>))
                         ELSE IF run_command = ""
                         THEN cli' = Stopped(Format("Tool '{}' has no run_command defined.",
                                                    <<tool_name>>))
                         ELSE IF header_flag # "" /\ cli.headers # <<>>
                                 /\ BadHeader(cli.headers, 1) # 0
                         THEN cli' = Stopped(Format("Invalid header format: '{}'. Use 'Key:Value'",
                                                    <<cli.headers[BadHeader(cli.headers, 1)]>>))
                         ELSE LET expanded ==
                                      ExpandCommand(Get(alias_def, "command", ""), var_map, 1)
                                  cmd_template ==
                                      IF header_flag # "" /\ cli.headers # <<>>
                                      THEN AppendHeaders(expanded, header_flag,
                                                         ParsedHeaders(cli.headers), 1)
                                      ELSE expanded
                              IN  \E returncode \in {0, 1} :
                                      cli' = [pc |-> "composed", fn |-> "exec_command",
                                              alias_name |-> cli.alias_name,
                                              headers |-> cli.headers,
                                              full_cmd |-> full_cmd(<<run_command>>, cmd_template),
                                              failed |-> returncode # 0]

\* Lines 660-689: run_alias_async up to the launch of the process.
RunAliasCompose ==
    /\ cli.pc = "run_alias_async"
    /\ UNCHANGED <<frames, procs, handles>>
    /\ LET tool_name    == Name(Split1(cli.alias_name)[1])
           alias_name   == Name(Split1(cli.alias_name)[2])
           tool_config  == load_tool(tool_name)[1]
           tool_aliases == load_tool(tool_name)[2]
       IN  IF alias_name \notin DOMAIN tool_aliases
           THEN cli' = [pc |-> "raised", error |-> "KeyError"]
           ELSE LET alias_def      == tool_aliases[alias_name]
                    variables      == Get(alias_def, "variables", <<>>)
                    processed_vars == TransformVars(variables, 1, cli.var_values)
                    cmd_template   == ExpandAlias(variables, 1, Get(alias_def, "command", ""),
                                                  processed_vars)
                    run_command    == Get(tool_config, "run_command", "None")
                    header_flag    == Get(tool_config, "header_flag", "")
                    composed       == full_cmd(<<run_command>>, cmd_template)
                IN  cli' = [pc |-> "composed", fn |-> "run_alias_async",
                            alias_name |-> cli.alias_name, headers |-> cli.headers,
                            full_cmd |-> IF header_flag # "" /\ cli.headers # <<>>
                                         THEN AppendHeaders(composed, header_flag,
                                                            cli.headers, 1)
                                         ELSE composed]

ComposeNext == ExecCommand \/ RunAliasCompose

ComposeSpec == ComposeInit /\ [][ComposeNext]_vars

\* ------------------------------------------- the aliases of a Flow object
\* alias.split(":"): the pieces between the colons.
RECURSIVE split(_)
split(s) ==
    IF ~HasColon(s) THEN <<s>> ELSE <<Split1(s)[1]>> \o split(Split1(s)[2])

\* FlowFileHandler.alias_content before any aliases file was loaded (None).
NoContent == <<>>

\* str(e) of the exceptions alias_to_command catches.
UnpackError(n) ==
    IF n < 2 THEN <<"not enough values to unpack (expected 2, got 1)">>
    ELSE <<"too many values to unpack (expected 2)">>

ConcatError == <<"can only concatenate str (not \"NoneType\") to str">>

\* Lines 295-305: the aliases file of the tool replaces alias_content when
\* the file exists; otherwise alias_content is left as it was.
LoadAliases(tool, alias_content) ==
    IF tool \in DOMAIN ToolFiles THEN [aliases |-> ToolFiles[tool].aliases]
    ELSE alias_content

\* Lines 278-323: Flow.alias_to_command, as the value it returns (or the
\* TypeError it raises) and the two fields of the Flow object it writes.
AliasToCommand(alias, alias_content, alias_command) ==
    IF Len(split(alias)) # 2
    THEN [raised |-> FALSE, returned |-> UnpackError(Len(split(alias))),
          alias_content |-> alias_content, alias_command |-> alias_command]
    ELSE LET tool    == Name(split(alias)[1])
             name    == Name(split(alias)[2])
             content == LoadAliases(tool, alias_content)
         IN  IF DOMAIN content = {}
             THEN [raised |-> TRUE, returned |-> None,
                   alias_content |-> content, alias_command |-> alias_command]
             ELSE IF name \notin DOMAIN content.aliases
             THEN [raised |-> FALSE, returned |-> alias_command,
                   alias_content |-> content, alias_command |-> alias_command]
             ELSE IF "command" \notin DOMAIN content.aliases[name]
             THEN [raised |-> FALSE, returned |-> ConcatError,
                   alias_content |-> content, alias_command |-> alias_command]
             ELSE LET command == <<tool, " ">> \o content.aliases[name].command
                  IN  [raised |-> FALSE, returned |-> command,
                       alias_content |-> content, alias_command |-> command]

\* The alias references of the tasks of a stage.
AliasGhost    == <<"ghost", ":", "get">>
AliasOtherGet == <<"dig", ":", "get">>
AliasTwoColon == <<"nmap", ":", "host", ":", "x">>

BuildRefs ==
    {<<"curl", ":", "get">>, <<"wget", ":", "get">>, <<"dig", ":", "short">>,
     AliasOtherGet, AliasGhost, AliasNoColon, AliasTwoColon}

BuildTasks == {Alias(ref) : ref \in BuildRefs} \cup {Cmd("run"), FlowT("sub")}

MaxCalls == 3

\* A Flow object whose stage information holds one stage, before the loop
\* of line 349 has taken a task.
BuildInit ==
    /\ frames = <<>>
    /\ procs = {}
    /\ handles = <<>>
    /\ \E stage_execution \in SeqsUpTo(BuildTasks, MaxCalls) \ {<<>>} :
           cli = [pc |-> "build", stage_execution |-> stage_execution, i |-> 1,
                  tmp_alias |-> <<>>, tmp_flows |-> <<>>, tmp_cmd |-> <<>>,
                  alias_content |-> NoContent, alias_command |-> None]

\* Lines 349-386: one turn of the loop over the tasks of the stage.
BuildTask ==
    /\ cli.pc = "build" /\ cli.i <= Len(cli.stage_execution)
    /\ UNCHANGED <<frames, procs, handles>>
    /\ LET dicts    == cli.stage_execution[cli.i]
           call     == AliasToCommand(dicts.alias, cli.alias_content, cli.alias_command)
           tmp_flows == IF "flow" \in DOMAIN dicts
                        THEN Append(cli.tmp_flows, <<dicts.flow, Get(dicts, "variables", None)>>)
                        ELSE cli.tmp_flows
           tmp_cmd   == IF "command" \in DOMAIN dicts
                        THEN Append(cli.tmp_cmd, <<dicts.command, None, None>>)
                        ELSE cli.tmp_cmd
       IN  IF "alias" \notin DOMAIN dicts
           THEN cli' = [cli EXCEPT !.i = @ + 1, !.tmp_flows = tmp_flows, !.tmp_cmd = tmp_cmd]
           ELSE IF call.raised
           THEN cli' = [pc |-> "raised", error |-> "TypeError"]
           ELSE cli' = [cli EXCEPT !.i = @ + 1,
                                   !.tmp_alias = Append(@, <<call.returned, None, None>>),
                                   !.tmp_flows = tmp_flows, !.tmp_cmd = tmp_cmd,
                                   !.alias_content = call.alias_content,
                                   !.alias_command = call.alias_command]

BuildNext == BuildTask

BuildSpec == BuildInit /\ [][BuildNext]_vars

\* ------------------------------------------ the stages of child flows
\* A stage of the builder's flow: its name and, for a stage of a child flow,
\* the name of the stage it is to follow.
ParentStage(name)             == [name |-> name, insert_after |-> "None"]
ChildStage(name, insert_after) == [name |-> name, insert_after |-> insert_after]

\* list.insert(pos, x) for 0 <= pos <= len(list).
ListInsert(list, pos, x) ==
    SubSeq(list, 1, pos) \o <<x>> \o SubSeq(list, pos + 1, Len(list))

\* Flow.find_stage_index_via(stage_name=...), as line 46 uses it: the
\* (0-based) index of a stage with that name; no index stands for None.
FindStageIndexVia(flow_stages, stage_name) ==
    {i - 1 : i \in {j \in DOMAIN flow_stages : flow_stages[j].name = stage_name}}

\* Lines 54-56: the child stages go in one after another from insert_pos on,
\* from child k on.
RECURSIVE InsertFrom(_, _, _, _)
InsertFrom(flow_stages, child_stages, k, insert_pos) ==
    IF k > Len(child_stages) THEN flow_stages
    ELSE InsertFrom(ListInsert(flow_stages, insert_pos, child_stages[k]), child_stages,
                    k + 1, insert_pos + 1)

\* The stage lists of the flows and of their child flows.
ChildNames  == {"x", "y", "z"}
AfterNames  == {"a", "b", "x", "q"}

ParentLists ==
    {<<ParentStage("a"), ParentStage("b")>>,
     <<ParentStage("a"), ParentStage("b"), ParentStage("c")>>}

MaxChildren == 2
MaxLists    == 2

Distinct(names) == \A i, j \in DOMAIN names : i # j => names[i] # names[j]

\* The stages of one child flow follow the stage that called the flow.
ChildLists ==
    {[k \in DOMAIN names |-> ChildStage(names[k], insert_after)] :
        names \in {ns \in SeqsUpTo(ChildNames, MaxChildren) : Distinct(ns)},
        insert_after \in AfterNames}

StageNames(stage_list) ==
    UNION {{stage_list[i][k].name : k \in DOMAIN stage_list[i]} : i \in DOMAIN stage_list}

StageCount(stage_list, i) ==
    Cardinality(UNION {{<<j, k>> : k \in DOMAIN stage_list[j]} : j \in i..Len(stage_list)})

\* A FlowBuilder at line 24: the parsed flow and the lists of child stages,
\* every stage under a name of its own.  called_with keeps the stage list of
\* the call.
InsertInit ==
    /\ frames = <<>>
    /\ procs = {}
    /\ handles = <<>>
    /\ \E flow_stages \in ParentLists, stage_list \in SeqsUpTo(ChildLists, MaxLists) :
           /\ Cardinality(StageNames(stage_list)) = StageCount(stage_list, 1)
           /\ cli = [pc |-> "insert", stages |-> flow_stages, called_with |-> flow_stages,
                     stage_list |-> stage_list, i |-> 1]

\* Lines 41-56: one turn of the loop over the lists of child stages.
InsertChildStages ==
    /\ cli.pc = "insert" /\ cli.i <= Len(cli.stage_list)
    /\ UNCHANGED <<frames, procs, handles>>
    /\ LET child_stages == cli.stage_list[cli.i]
           found        == FindStageIndexVia(cli.stages, child_stages[1].insert_after)
       IN  IF child_stages = <<>>
           THEN cli' = [cli EXCEPT !.i = @ + 1]
           ELSE IF found = {}
           THEN cli' = [pc |-> "exit", code |-> -1]
           ELSE \E index \in found :
                    cli' = [cli EXCEPT !.i = @ + 1,
                                       !.stages = InsertFrom(@, child_stages, 1, index + 1)]

\* Line 24: the method returns when the loop is through.
InsertReturn ==
    /\ cli.pc = "insert" /\ cli.i > Len(cli.stage_list)
    /\ UNCHANGED <<frames, procs, handles>>
    /\ cli' = [cli EXCEPT !.pc = "inserted"]

InsertNext == InsertChildStages \/ InsertReturn

InsertSpec == InsertInit /\ [][InsertNext]_vars

\* The event loop runs whatever is ready and every spawned process exits:
\* a step that can be taken is taken.
LiveSpec == Init /\ [][Next]_vars /\ WF_vars(Next)

\* ------------------------------------------------------------ properties
\* The input that was handed to the task awaited by the chained call p: the
\* stdin of its subprocess, or the input_data of its nested call.
AwaitedTaskNo(f) == f.coros[1].task_no

LaunchedInputs(p) ==
    LET f == frames[p] IN
    {pr.stdin : pr \in {x \in procs : x.owner = p /\ x.stage = f.stage_index
                                        /\ x.task_no = AwaitedTaskNo(f)}}
      \cup {frames[q].input_data :
               q \in {ChildPath(p, f.stage_index, AwaitedTaskNo(f))} \cap DOMAIN frames}

\* The result of a task gives nothing to pipe on.
NothingToPipe(task, r) ==
    \/ ~r.success
    \/ r.output \in {<<>>, None}
    \/ ~pipe_output(task)

\* C1: in a chained stage, when task i failed, produced empty output or has
\* settings.pipe_output = false, task i+1 is launched with no input, whatever
\* the stage's input and the earlier outputs were.
C1_NoInputAfterFailure ==
    \A p \in DOMAIN frames :
        LET f == frames[p] IN
        (f.pc = "await" /\ AwaitedTaskNo(f) > 1) =>
            LET i == AwaitedTaskNo(f) - 1
            IN  NothingToPipe(f.tasks[i], f.stage_tools_results[i]) =>
                    /\ f.coros[1].input = None
                    /\ LaunchedInputs(p) \subseteq {None}

\* C1 witness: the third task of a chained stage that was given an input runs
\* a process with no stdin although it pipes its input, the first task had
\* produced output, and the second failed.
C1_Witness ==
    \E p \in DOMAIN frames :
        LET f == frames[p] IN
        /\ f.pc = "await" /\ AwaitedTaskNo(f) = 3
        /\ f.previous_stage_output # None
        /\ f.stage_tools_results[1].success
        /\ Truthy(f.stage_tools_results[1].output)
        /\ pipe_output(f.tasks[1])
        /\ ~f.stage_tools_results[2].success
        /\ pipe_input(f.tasks[3])
        /\ \E pr \in procs : pr.owner = p /\ pr.task_no = 3 /\ pr.stdin = None

\* The running value of a chained stage after its first n tasks.
RunningValue(f, n) ==
    IF n = 0 THEN f.previous_stage_output
    ELSE IF NothingToPipe(f.tasks[n], f.stage_tools_results[n]) THEN None
    ELSE strip(f.stage_tools_results[n].output)

\* The stage that call f completed last was sequential and chained.
LastStageDef(f) == Get(stages(f), flow_order(f)[f.stage_index].stage, <<>>)

AfterStage(f) == f.pc = "stages" /\ f.stage_index > 0

AfterChained(f) ==
    /\ AfterStage(f)
    /\ Get(LastStageDef(f), "distribution", "broadcast") = "chained"
    /\ ~Get(LastStageDef(f), "parallel", FALSE)

\* C2: in a chained stage the running value starts as the stage input; after
\* a task that succeeded with non-empty output and pipes its output it is that
\* output trimmed; each task is launched with the running value (with no
\* input when it disables pipe_input); the stage's output is the running value
\* after the last task.
C2_RunningValue ==
    \A p \in DOMAIN frames :
        LET f == frames[p] IN
        /\ f.pc = "await" =>
              LET n == AwaitedTaskNo(f) IN
              /\ Len(f.stage_tools_results) = n - 1
              /\ f.current_input = RunningValue(f, n - 1)
              /\ f.coros[1].input =
                    IF pipe_input(f.tasks[n]) THEN RunningValue(f, n - 1) ELSE None
              /\ LaunchedInputs(p) \subseteq {f.coros[1].input}
        /\ AfterChained(f) =>
              LET tasks   == Get(LastStageDef(f), "tasks", <<>>)
                  results == f.stage_results[f.stage_index][2]
                  n       == Len(tasks)
              IN  /\ Len(results) = n
                  /\ n > 0 =>
                        f.previous_stage_output =
                            IF NothingToPipe(tasks[n], results[n]) THEN None
                            ELSE strip(results[n].output)

\* C2 witness: a chained task is launched with the trimmed output "a" of the
\* task before it, whose process printed "a\n".
C2_Witness ==
    \E p \in DOMAIN frames :
        LET f == frames[p] IN
        /\ f.pc = "await" /\ AwaitedTaskNo(f) > 1
        /\ f.stage_tools_results[AwaitedTaskNo(f) - 1].output = <<"a", "\n">>
        /\ LaunchedInputs(p) = {<<"a">>}

\* The stage that call f completed last (or is in) is parallel and broadcast.
IsBroadcast(stage_def) ==
    Get(stage_def, "parallel", FALSE) /\ Get(stage_def, "distribution", "broadcast") = "broadcast"

AfterBroadcast(f) == AfterStage(f) /\ IsBroadcast(LastStageDef(f))

\* The trimmed outputs of the results that succeeded with output, in order.
RECURSIVE SuccessfulOutputs(_)
SuccessfulOutputs(results) ==
    IF results = <<>> THEN <<>>
    ELSE LET r == Head(results)
         IN  (IF r.success /\ Truthy(r.output) THEN <<strip(r.output)>> ELSE <<>>)
               \o SuccessfulOutputs(Tail(results))

\* r is the entry recorded for the declared task.
ResultOf(task, r) ==
    IF "flow" \in DOMAIN task
    THEN "stage_results" \in DOMAIN r \/ "error" \in DOMAIN r \/ r.tool = StrOf(task)
    ELSE IF "alias" \in DOMAIN task
    THEN r.tool \in {<<tool_name_of(task), ":", alias_name_of(task)>>, StrOf(task)}
    ELSE r.tool = <<"command", ":", task.command>>

\* C3: the output of a broadcast stage is the newline-join of the trimmed
\* outputs of the tasks that succeeded with non-empty output, in declared task
\* order, whatever the order in which the tasks finished (None when there is
\* no such task).
C3_BroadcastOutputInDeclaredOrder ==
    \A p \in DOMAIN frames :
        LET f == frames[p] IN
        AfterBroadcast(f) =>
            LET tasks   == Get(LastStageDef(f), "tasks", <<>>)
                results == f.stage_results[f.stage_index][2]
                outs    == SuccessfulOutputs(results)
            IN  /\ f.previous_stage_output =
                      IF outs = <<>> THEN None ELSE join(<<"\n">>, outs)
                /\ (\A i \in DOMAIN tasks : HasKind(tasks[i])) =>
                      /\ Len(results) = Len(tasks)
                      /\ \A i \in DOMAIN tasks : ResultOf(tasks[i], results[i])

\* C3 witness: the second declared task finished first, and the stage output
\* is "a\nb", the first task's output before the second's.
C3_Witness ==
    \E p \in DOMAIN frames :
        LET f == frames[p] IN
        /\ AfterBroadcast(f)
        /\ f.exited = <<2, 1>>
        /\ f.previous_stage_output = <<"a", "\n", "b">>

Parent(q) == SubSeq(q, 1, Len(q) - 1)

\* Call a is suspended in its stage k, whose result is not yet recorded.
SuspendedIn(a, k) ==
    /\ a \in DOMAIN frames
    /\ frames[a].pc \in {"gather", "await"}
    /\ frames[a].stage_index = k
    /\ Len(frames[a].stage_results) = k - 1

\* C4: while any task of stage k is unfinished (a process still runs, or a
\* nested call made for it is still live, at any depth below), the call is
\* suspended in stage k: stage k's result is not recorded and no later stage
\* has started.
C4_Barrier ==
    /\ \A pr \in procs : SuspendedIn(pr.owner, pr.stage)
    /\ \A q \in DOMAIN frames :
          q # <<>> => SuspendedIn(Parent(q), q[Len(q)][1])

\* C4 witness: in a broadcast stage one task's process has exited while a
\* nested flow run as a sibling task is still inside its own stage.
C4_Witness ==
    \E p \in DOMAIN frames : \E q \in DOMAIN frames :
        /\ frames[p].pc = "gather"
        /\ q # <<>> /\ Parent(q) = p
        /\ frames[q].pc = "await"
        /\ \E j \in DOMAIN frames[p].coros :
              frames[p].coros[j].kind = "command" /\ frames[p].coros[j].st = "done"

InBroadcast(f) == f.stage_index > 0 /\ IsBroadcast(LastStageDef(f))

\* C5 (as claimed): no call ends by an exception while it is in a broadcast
\* stage; an internal error of a task is a failed result of that task.
C5_BroadcastErrorsContained ==
    \A p \in DOMAIN frames :
        frames[p].pc = "raised" => ~InBroadcast(frames[p])

\* The exceptions a task's coroutine raises (run_alias_async, line 661).
TaskExceptions == {"KeyError"}

\* C6 (as claimed): an exception raised while running a task never leaves
\* run_flow_internal.
C6_TaskExceptionsContained ==
    \A p \in DOMAIN frames :
        frames[p].pc = "raised" => frames[p].error \notin TaskExceptions

\* C7: a call nested deeper than 5 returns a failed result with no output,
\* without running a stage, spawning a process or calling deeper; every call
\* that is executing stages has depth at most 5.
C7_DepthCap ==
    \A p \in DOMAIN frames :
        LET f == frames[p] IN
        /\ f.flow_depth > MaxDepth =>
              /\ f.pc \in {"entry", "returned"}
              /\ f.stage_index = 0 /\ f.stage_results = <<>>
              /\ f.pc = "returned" =>
                    /\ ~f.ret.success
                    /\ ~Truthy(f.ret.output)
                    /\ "stage_results" \notin DOMAIN f.ret
              /\ \A pr \in procs : pr.owner # p
              /\ \A q \in DOMAIN frames : q # <<>> => Parent(q) # p
        /\ f.pc \in {"stages", "chained", "await", "gather"} => f.flow_depth <= MaxDepth

\* C7 witness: the call at depth 6 has returned.
C7_Witness ==
    \E p \in DOMAIN frames :
        frames[p].flow_depth = MaxDepth + 1 /\ frames[p].pc = "returned"
\* The flows a call of flow_def can reach through nested-flow tasks of the
\* stages in its flow order.
FlowTasks(flow_def) ==
    LET order == Get(flow_def, "flow", <<>>)
        sts   == Get(flow_def, "stages", <<>>)
    IN  {t.flow : t \in {task \in UNION {{Get(Get(sts, order[n].stage, <<>>), "tasks", <<>>)[i] :
                                                 i \in DOMAIN Get(Get(sts, order[n].stage, <<>>),
                                                                  "tasks", <<>>)} :
                                            n \in DOMAIN order} :
                           "flow" \in DOMAIN task}}

RECURSIVE Reachable(_, _)
Reachable(names, n) ==
    IF n = 0 THEN names
    ELSE Reachable(names \cup UNION {FlowTasks(load_flow(x)) : x \in names}, n - 1)

\* The nested-flow tasks of flow_def form a cycle through flow_def.
Cyclic(flow_def) ==
    /\ "name" \in DOMAIN flow_def
    /\ flow_def.name \in DOMAIN FlowFiles /\ FlowFiles[flow_def.name] = flow_def
    /\ flow_def.name \in Reachable(FlowTasks(flow_def), Cardinality(DOMAIN FlowFiles))

IsFlowResult(r) == DOMAIN r = {"output", "success", "stage_results"}

\* C8 (as claimed): the top-level call of a flow whose nested-flow tasks form a
\* cycle eventually returns a FlowResult.
C8_CyclicFlowReturns ==
    Cyclic(frames[<<>>].flow_def) =>
        <>(frames[<<>>].pc = "returned" /\ IsFlowResult(frames[<<>>].ret))
\* The tasks declared for the k-th entry of call f's flow order.
TasksOfStage(f, k) == Get(Get(stages(f), flow_order(f)[k].stage, <<>>), "tasks", <<>>)

\* The result a call at depth <= 5 has returned is a successful FlowResult
\* with one StageResult per entry of the flow order, in that order, in which
\* every task that failed has an entry with success = false.
FailuresRecorded(f) ==
    /\ IsFlowResult(f.ret)
    /\ f.ret.success
    /\ Len(f.ret.stage_results) = Len(flow_order(f))
    /\ \A n \in DOMAIN flow_order(f) : f.ret.stage_results[n][1] = flow_order(f)[n].stage
    /\ \A t \in f.failed :
          \E j \in DOMAIN f.ret.stage_results[t[1]][2] :
              LET r == f.ret.stage_results[t[1]][2][j]
              IN  IsDict(r) /\ ~r.success /\ ResultOf(TasksOfStage(f, t[1])[t[2]], r)

ReturnsRecordFailures ==
    \A p \in DOMAIN frames :
        (frames[p].pc = "returned" /\ frames[p].flow_depth <= MaxDepth) =>
            FailuresRecorded(frames[p])

\* Some task of the run has failed: non-zero exit, launch failure, or a
\* nested call refused as too deep.
SomeTaskFailed == \E p \in DOMAIN frames : frames[p].failed # {}

\* C9 (as claimed): whatever tasks fail, a flow run at depth <= 5 completes:
\* once a task has failed the top-level call still returns, and every call
\* that returns gives success = true, one StageResult per entry of the flow
\* order in that order, and an entry with success = false for each failed
\* task.
C9_FlowCompletesDespiteFailures ==
    /\ []ReturnsRecordFailures
    /\ SomeTaskFailed ~> (frames[<<>>].pc = "returned")
IsParallelChained(stage_def) ==
    Get(stage_def, "parallel", FALSE) /\ Get(stage_def, "distribution", "broadcast") = "chained"

\* The message is about the stage named s.
NamesStage(msg, s) ==
    /\ msg.fmt \in {"Stage '{}' not defined in stages", "Stage '{}' has no 'tasks' defined.",
                    "Stage '{}' is parallel with distribution='chained' which is not allowed.",
                    "In stage '{}': {}"}
    /\ msg.args[1] = s

\* C10 (as claimed): validate_flow rejects every flow whose stages hold a
\* stage with parallel = true and distribution = chained, and the message
\* names that stage.
C10_RejectsEveryParallelChained ==
    cli.pc = "validated" =>
        \A s \in DOMAIN Get(cli.flow_def, "stages", <<>>) :
            IsParallelChained(cli.flow_def.stages[s]) =>
                ~cli.valid /\ NamesStage(cli.error_msg, s)

\* Entry n of the flow order refers to a stage that is parallel and chained.
RefersToParallelChained(flow_def, n) ==
    /\ "stage" \in DOMAIN flow_def.flow[n]
    /\ flow_def.flow[n].stage \in DOMAIN flow_def.stages
    /\ IsParallelChained(flow_def.stages[flow_def.flow[n].stage])

\* The entries before entry n would pass validation by themselves.
EarlierEntriesPass(flow_def, var_values, n) ==
    n = 1 \/ validate_flow([flow_def EXCEPT !.flow = SubSeq(@, 1, n - 1)], var_values)[1]

\* C10 (amended): validate_flow rejects every flow whose flow order refers to
\* a stage with parallel = true and distribution = chained, and the message
\* names that stage when the entries before it pass their checks.
C10_RejectsReferencedParallelChained ==
    cli.pc = "validated" =>
        \A n \in DOMAIN cli.flow_def.flow :
            RefersToParallelChained(cli.flow_def, n) =>
                /\ ~cli.valid
                /\ EarlierEntriesPass(cli.flow_def, cli.var_values, n) =>
                       NamesStage(cli.error_msg, cli.flow_def.flow[n].stage)

\* C10 witness: the second entry of the flow order refers to a parallel and
\* chained stage that has tasks, the first entry passes, and the flow is
\* rejected with the parallel/chained message naming the second entry's stage.
C10_Witness ==
    /\ cli.pc = "validated"
    /\ Len(cli.flow_def.flow) = 2
    /\ RefersToParallelChained(cli.flow_def, 2)
    /\ cli.flow_def.flow[1] # cli.flow_def.flow[2]
    /\ EarlierEntriesPass(cli.flow_def, cli.var_values, 2)
    /\ ~cli.valid
    /\ cli.error_msg =
          Format("Stage '{}' is parallel with distribution='chained' which is not allowed.",
                 <<cli.flow_def.flow[2].stage>>)
\* The stages call f has processed or is processing: entries 1..stage_index
\* of its flow order.
ProcessedStages(f) ==
    {Get(stages(f), flow_order(f)[k].stage, <<>>) : k \in 1..f.stage_index}

\* C11 (as claimed): in a run started by the flow-run command, which
\* validates the flow first, no call of run_flow_internal at any depth
\* processes a stage with parallel = true and distribution = chained.
C11_NoParallelChainedProcessed ==
    \A p \in DOMAIN frames :
        \A stage_def \in ProcessedStages(frames[p]) : ~IsParallelChained(stage_def)

\* The command has got past loading and validation: run_flow_internal has
\* been called.
PastValidation == cli.pc \in {"running", "done", "crashed"}

\* C12: when the flow definition cannot be loaded or validate_flow returns a
\* failure, the flow-run command stops with a message and spawns no
\* subprocess; a subprocess is spawned (and a call of run_flow_internal
\* exists) only after the flow was loaded and validate_flow has succeeded on
\* it with the bindings of the run.
C12_NoSpawnBeforeValidation ==
    /\ cli.pc \in {"invoked", "stopped", "running", "done", "crashed"}
    /\ cli.pc = "stopped" =>
          /\ "message" \in DOMAIN cli /\ cli.message.fmt # ""
          /\ procs = {} /\ frames = <<>> /\ handles = <<>>
    /\ cli.pc = "invoked" => procs = {} /\ frames = <<>> /\ handles = <<>>
    /\ PastValidation =>
          /\ load_flow(cli.flow_name) # <<>>
          /\ validate_flow(load_flow(cli.flow_name), cli.var_values)[1]
    /\ (procs # {} \/ frames # <<>>) => PastValidation

\* C12 witness: the command has stopped with the message of a failed
\* validation and nothing was spawned.
C12_Witness ==
    /\ cli.pc = "stopped"
    /\ \E n \in DOMAIN FlowFiles :
          LET checked == validate_flow(load_flow(n), <<>>)
          IN  ~checked[1] /\ cli.message = checked[2]
    /\ procs = {}

\* The definition of the k-th stage of call f's flow order.
StageDefAt(f, k) == Get(stages(f), flow_order(f)[k].stage, <<>>)

\* The output of the k-th stage of call f, from the results recorded for it
\* (k = 0: the input of the call): the join of a broadcast stage, the running
\* value after the last task of a chained stage, and nothing for a stage that
\* runs no task.
RECURSIVE StageOutput(_, _)
StageOutput(f, k) ==
    IF k = 0 THEN f.input_data
    ELSE LET stage_def == StageDefAt(f, k)
             tasks     == Get(stage_def, "tasks", <<>>)
             results   == f.stage_results[k][2]
             n         == Len(results)
         IN  IF IsBroadcast(stage_def)
             THEN LET outs == SuccessfulOutputs(results)
                  IN  IF outs = <<>> THEN None ELSE join(<<"\n">>, outs)
             ELSE IF Get(stage_def, "distribution", "broadcast") = "chained"
                     /\ ~Get(stage_def, "parallel", FALSE)
             THEN IF n = 0 THEN StageOutput(f, k - 1)
                  ELSE IF NothingToPipe(tasks[n], results[n]) THEN None
                  ELSE strip(results[n].output)
             ELSE None

\* Call f is executing its stages (it was not refused as too deep).
InStages(f) == f.pc \in {"stages", "gather", "chained", "await"}

\* C13: stages execute one at a time in the order of the flow list; the
\* input of stage k+1 is exactly the output of stage k (None when stage k
\* produced none, never an older stage's output), the first stage's input is
\* the flow's input, and the flow's final output is the output of the last
\* stage.
C13_StagesThreadOneValue ==
    /\ \A p \in DOMAIN frames :
          LET f    == frames[p]
              done == Len(f.stage_results)
          IN  /\ InStages(f) =>
                    /\ done = IF f.pc = "stages" THEN f.stage_index ELSE f.stage_index - 1
                    /\ f.stage_index <= Len(flow_order(f))
                    /\ \A k \in 1..done : f.stage_results[k][1] = flow_order(f)[k].stage
                    /\ f.previous_stage_output = StageOutput(f, done)
              /\ (f.pc = "returned" /\ IsFlowResult(f.ret)) =>
                    /\ f.ret.stage_results = f.stage_results
                    /\ done = Len(flow_order(f))
                    /\ \A k \in 1..done : f.stage_results[k][1] = flow_order(f)[k].stage
                    /\ f.ret.output = StageOutput(f, done)
    /\ \A pr \in procs : pr.stage = frames[pr.owner].stage_index

\* C13 witness: the first stage produced output, the second produced none,
\* and the third stage's task runs with no input.
C13_Witness ==
    \E p \in DOMAIN frames :
        LET f == frames[p] IN
        /\ f.pc = "await" /\ f.stage_index = 3 /\ AwaitedTaskNo(f) = 1
        /\ StageOutput(f, 1) # None
        /\ StageOutput(f, 2) = None
        /\ \E pr \in procs : pr.owner = p /\ pr.stage = 3 /\ pr.stdin = None

\* The input a broadcast task of call f is to receive.
BroadcastInput(f, task) == IF pipe_input(task) THEN f.previous_stage_output ELSE None

\* C14: in a broadcast stage every task whose settings do not disable
\* pipe_input receives exactly the incoming stage value as input, and every
\* task that disables pipe_input receives no input, whatever its siblings
\* have produced so far: the stdin of each spawned process and the input_data
\* of each nested call are that value.
C14_BroadcastInputs ==
    \A p \in DOMAIN frames :
        LET f == frames[p] IN
        f.pc = "gather" =>
            /\ f.previous_stage_output = StageOutput(f, f.stage_index - 1)
            /\ \A j \in DOMAIN f.coros :
                  f.coros[j].input = BroadcastInput(f, f.tasks[f.coros[j].task_no])
            /\ \A pr \in procs :
                  pr.owner = p => pr.stdin = BroadcastInput(f, f.tasks[pr.task_no])
            /\ \A q \in DOMAIN frames :
                  (q # <<>> /\ Parent(q) = p) =>
                      frames[q].input_data = BroadcastInput(f, f.tasks[q[Len(q)][2]])

\* C14 witness: in a broadcast stage with an incoming value, a sibling has
\* already finished with output while one process runs with the incoming
\* value as stdin and another, of a task that disables pipe_input, runs with
\* none.
C14_Witness ==
    \E p \in DOMAIN frames :
        LET f == frames[p] IN
        /\ f.pc = "gather"
        /\ f.previous_stage_output # None
        /\ \E j \in DOMAIN f.coros :
              /\ f.coros[j].st = "done" /\ IsDict(f.coros[j].result)
              /\ Truthy(f.coros[j].result.output)
        /\ \E pr \in procs :
              pr.owner = p /\ pipe_input(f.tasks[pr.task_no])
                /\ pr.stdin = f.previous_stage_output
        /\ \E pr \in procs :
              pr.owner = p /\ ~pipe_input(f.tasks[pr.task_no]) /\ pr.stdin = None

\* sub occurs in s.
Occurs(s, sub) ==
    \E i \in 1..(Len(s) - Len(sub) + 1) : SubSeq(s, i, i + Len(sub) - 1) = sub

\* The command string an expanded task runs.
ExpandedCommand == IF cli.kind = "alias" THEN cli.full_cmd ELSE cli.template

\* C15 (as claimed): after template expansion of an alias task's command
\* template or a command task's raw command, no placeholder {{name}} whose
\* name has a value in the bindings remains in the resulting command string.
C15_NoBoundPlaceholderRemains ==
    cli.pc = "expanded" =>
        \A i \in DOMAIN cli.var_values :
            ~Occurs(ExpandedCommand, Placeholder(cli.var_values[i][1]))

\* C16 (as claimed): strip_ansi_codes is idempotent: for every string s,
\* strip_ansi_codes(strip_ansi_codes(s)) = strip_ansi_codes(s).
C16_StripIdempotent ==
    cli.pc = "twice" => cli.twice = cli.once

\* Index of the first occurrence of sub in s at or after i, 0 when none.
RECURSIVE Find(_, _, _)
Find(s, sub, i) ==
    IF i + Len(sub) - 1 > Len(s) THEN 0
    ELSE IF SubSeq(s, i, i + Len(sub) - 1) = sub THEN i
    ELSE Find(s, sub, i + 1)

\* The host part of a URL: what stands between "//" and the path, query or
\* fragment, without the user information before '@' and without the port
\* after ':'; empty when the URL has no "//".
HostPart(url) ==
    LET start == Find(url, <<"/", "/">>, 1)
    IN  IF start = 0 THEN <<>>
        ELSE LET authority == SubSeq(url, start + 2,
                                     FindAny(url, {"/", "?", "#"}, start + 2) - 1)
                 at        == Find(authority, <<"@">>, 1)
                 hostport  == SubSeq(authority, at + 1, Len(authority))
             IN  SubSeq(hostport, 1, FindAny(hostport, {":"}, 1) - 1)

\* C17 (as claimed): for an alias variable declared with the hostname
\* transform, the value substituted into the template is the host part of the
\* bound URL with one leading "www." label removed; a variable without a
\* transform, or with an unrecognized transform name, is substituted
\* unchanged.
C17_HostnameTransform ==
    (cli.pc = "expanded" /\ cli.kind = "alias") =>
        \A j \in DOMAIN cli.variables :
            LET var_def == cli.variables[j]
                vname   == var_def.name
            IN  HasKey(cli.var_values, vname) =>
                    LET bound    == ValueOf(cli.var_values, vname)
                        expected ==
                            IF "transform" \in DOMAIN var_def
                               /\ var_def.transform = "url_to_domain"
                            THEN removeprefix(HostPart(bound), <<"w", "w", "w", ".">>)
                            ELSE bound
                    IN  cli.template = <<"-", "u", " ">> \o Placeholder(vname) =>
                            cli.full_cmd = <<"n", "m", "a", "p", " ", "-", "u", " ">> \o expected

\* C18 (as claimed): for alias and command tasks the TaskResult has success =
\* true if and only if the process was launched and exited with code 0; a
\* non-zero exit code or a launch exception gives success = false with empty
\* output.
C18_SuccessIffExitZero ==
    \A p \in DOMAIN frames :
        LET f == frames[p] IN
        f.pc \in {"gather", "await"} =>
            \A j \in DOMAIN f.coros :
                LET c == f.coros[j] IN
                (c.kind \in {"alias", "command"} /\ c.st = "done" /\ IsDict(c.result)) =>
                    /\ c.result.success <=> <<f.stage_index, c.task_no>> \notin f.failed
                    /\ ~c.result.success => c.result.output = <<>>

\* The task of its parent's flow that the nested call at q was made for.
TaskOfCall(q) ==
    LET last == q[Len(q)]
    IN  Get(StageDefAt(frames[Parent(q)], last[1]), "tasks", <<>>)[last[2]]

\* Every nested call runs on the map built for it from its task's variables
\* and its parent's bindings.
ChildBindingsBuilt ==
    \A q \in DOMAIN frames :
        q # <<>> => frames[q].var_values =
                       ChildVars(TaskOfCall(q), frames[Parent(q)].var_values)

\* C19: the binding map of a flow invocation is unchanged by everything that
\* runs under it: a nested flow runs on a new map built from its parent's, an
\* alias task's transform is applied to a private copy, and no step of any
\* task or nested flow changes the bindings of a live call.
C19_BindingsUnchanged ==
    /\ []ChildBindingsBuilt
    /\ [][\A p \in DOMAIN frames \cap DOMAIN frames' :
              frames'[p].var_values = frames[p].var_values]_vars

\* C19 witness: after a broadcast stage in which an alias task with a
\* transform and a nested flow have finished, a later command task of the
\* call runs with the original value of the variable.
C19_Witness ==
    \E p \in DOMAIN frames :
        LET f == frames[p] IN
        /\ f.pc = "await" /\ f.stage_index = 2 /\ AwaitedTaskNo(f) = 2
        /\ DOMAIN f.var_values = {"t"}
        /\ Len(f.stage_results[1][2]) = 3
        /\ transform_value(f.var_values.t, "url_to_domain") # f.var_values.t
        /\ \E pr \in procs :
              /\ pr.owner = p /\ pr.kind = "command"
              /\ pr.command = <<"e", "c", "h", "o", " ">> \o f.var_values.t

\* C20: during one flow run at most one progress-reporting instance exists
\* and is active at any time: every nested call of run_flow_internal has the
\* handle of its parent and creates, starts or stops none of its own (the one
\* handle is stopped by the command, after the top-level call has returned).
C20_OneProgress ==
    /\ Len(handles) <= 1
    /\ \A q \in DOMAIN frames :
          /\ frames[q].progress \in DOMAIN handles
          /\ ~frames[q].new_progress_created
          /\ q # <<>> => frames[q].progress = frames[Parent(q)].progress
    /\ \A h \in DOMAIN handles :
          handles[h] = "stopped" => /\ cli.pc \in {"done", "crashed"}
                                    /\ frames[<<>>].pc = "returned"

\* C20 witness: a call nested two deep executes a stage on the handle the
\* command has started, the only one there is.
C20_Witness ==
    /\ handles = <<"started">>
    /\ \E q \in DOMAIN frames :
          /\ Len(q) = 2
          /\ frames[q].pc \in {"gather", "await"}
          /\ frames[q].progress = frames[<<>>].progress
          /\ frames[q].progress = 1

\* C21 (as claimed): for every stage of a flow that passed validation,
\* whatever its parallel and distribution settings, the engine launches each
\* declared task once and the stage's result holds exactly one TaskResult per
\* declared task.
C21_OneResultPerTask ==
    (cli.pc \in {"running", "done", "crashed"} /\ <<>> \in DOMAIN frames) =>
        LET f == frames[<<>>] IN
        \A k \in 1..Len(f.stage_results) :
            Len(f.stage_results[k][2]) = Len(Get(StageDefAt(f, k), "tasks", <<>>))

\* C22: the output of a broadcast stage is absent (None, not the empty
\* string) whenever no task of the stage both succeeded and produced output.
C22_BroadcastOutputAbsent ==
    \A p \in DOMAIN frames :
        LET f == frames[p] IN
        AfterBroadcast(f) =>
            LET results == f.stage_results[f.stage_index][2]
            IN  (\A j \in DOMAIN results :
                    ~(results[j].success /\ Truthy(results[j].output)))
                  => f.previous_stage_output = None

\* C22 witness: a broadcast stage that was given input has ended with one task
\* failed and another succeeded without output, and its output is None.
C22_Witness ==
    \E p \in DOMAIN frames :
        LET f == frames[p] IN
        /\ AfterBroadcast(f)
        /\ f.input_data # None
        /\ LET results == f.stage_results[f.stage_index][2]
           IN  /\ \E j \in DOMAIN results : ~results[j].success
               /\ \E j \in DOMAIN results : results[j].success /\ results[j].output = <<>>
               /\ \A j \in DOMAIN results :
                     ~(results[j].success /\ Truthy(results[j].output))
        /\ f.previous_stage_output = None

\* A mapped value of the form {{name}}.
IsReference(v) ==
    /\ Len(v) >= 4
    /\ SubSeq(v, 1, 2) = <<"{", "{">>
    /\ SubSeq(v, Len(v) - 1, Len(v)) = <<"}", "}">>

\* C23 (as claimed): the bindings of a nested flow have exactly the keys of
\* its task's variables mapping; a literal mapped value is passed as it is, a
\* value {{name}} whose name the parent binds is replaced by the parent's
\* binding of name; nothing else of the parent is visible.
C23_NestedBindings ==
    \A q \in DOMAIN frames :
        q # <<>> =>
            LET m      == Get(TaskOfCall(q), "variables", <<>>)
                parent == frames[Parent(q)].var_values
                child  == frames[q].var_values
            IN  /\ DOMAIN child = DOMAIN m
                /\ \A k \in DOMAIN m :
                      IF IsReference(m[k])
                      THEN LET name == Name(SubSeq(m[k], 3, Len(m[k]) - 2))
                           IN  name \in DOMAIN parent => child[k] = parent[name]
                      ELSE child[k] = m[k]

\* The number of the keys alias / command / flow a task record has.
Kinds(task) == Cardinality(DOMAIN task \cap {"alias", "command", "flow"})

\* The stages of the stage map that the flow order names.
NamedStages(flow_def) ==
    {flow_def.flow[n].stage :
        n \in {x \in DOMAIN flow_def.flow : "stage" \in DOMAIN flow_def.flow[x]}}
      \cap DOMAIN Get(flow_def, "stages", <<>>)

\* C24 (as claimed): validate_flow rejects a flow when a stage its order names
\* holds a task record with none, or with more than one, of the keys
\* alias / command / flow.
C24_OneKindPerTask ==
    cli.pc = "validated" =>
        \A s \in NamedStages(cli.flow_def) :
            LET tasks == Get(cli.flow_def.stages[s], "tasks", <<>>)
            IN  (\E i \in DOMAIN tasks : Kinds(tasks[i]) # 1) => ~cli.valid

\* C25 (as claimed): when an entry of the flow order names a stage that is
\* not in the stage map, validate_flow returns the missing-stage error,
\* whatever the stages listed before that entry hold.
C25_MissingStageFirst ==
    (/\ cli.pc = "validated"
     /\ Get(cli.flow_def, "stages", <<>>) # <<>>
     /\ \A n \in DOMAIN cli.flow_def.flow : "stage" \in DOMAIN cli.flow_def.flow[n]
     /\ \E n \in DOMAIN cli.flow_def.flow :
           cli.flow_def.flow[n].stage \notin DOMAIN cli.flow_def.stages)
      => /\ ~cli.valid
         /\ cli.error_msg.fmt = "Stage '{}' not defined in stages"

\* The flow definition in hand has one entry in its order, which names a
\* stage that is not parallel and chained and holds one task, a flow task.
OneFlowTask ==
    /\ cli.pc = "validated"
    /\ Len(cli.flow_def.flow) = 1
    /\ NamedStages(cli.flow_def) # {}
    /\ LET stage_def == cli.flow_def.stages[cli.flow_def.flow[1].stage]
       IN  /\ ~IsParallelChained(stage_def)
           /\ Len(Get(stage_def, "tasks", <<>>)) = 1
           /\ DOMAIN stage_def.tasks[1] \cap {"alias", "command", "flow"} = {"flow"}

TheFlowTask == cli.flow_def.stages[cli.flow_def.flow[1].stage].tasks[1]

\* The mapped value begins with a reference {{name}}.
BeginsWithReference(v) ==
    Len(v) >= 2 /\ SubSeq(v, 1, 2) = <<"{", "{">> /\ findall(v, 1) # <<>>

\* C26 (as claimed): validate_task accepts a flow task if and only if the
\* flow it names resolves to a non-empty definition and every mapped value
\* that refers to a parent variable as {{name}} names a key of the bindings.
C26_FlowTaskAccepted ==
    OneFlowTask =>
        LET m == Get(TheFlowTask, "variables", <<>>)
        IN  cli.valid <=>
               /\ load_flow(TheFlowTask.flow) # <<>>
               /\ \A k \in DOMAIN m :
                     BeginsWithReference(m[k]) =>
                         Name(Head(findall(m[k], 1))) \in DOMAIN cli.var_values

\* The binding map with the items d, as validate_task reads it.
AsMap(d) == [n \in {Name(d[i][1]) : i \in DOMAIN d} |-> ValueOf(d, <<n>>)]

\* C27 (as claimed): when a command task passes validate_task against a
\* binding map (whose values hold no placeholder themselves), the command
\* string run_command_async builds from it with the same bindings holds no
\* {{...}} placeholder.
C27_ValidatedCommandFullyExpanded ==
    (/\ cli.pc = "expanded" /\ cli.kind = "command"
     /\ \A i \in DOMAIN cli.var_values : findall(cli.var_values[i][2], 1) = <<>>
     /\ validate_task([command |-> cli.task_command], AsMap(cli.var_values))[1])
      => findall(cli.template, 1) = <<>>

\* C28 (as claimed): every entry recorded in a StageResult carries an output,
\* a success flag and a label ('tool'), whatever the kind and the outcome of
\* its task, so the report of lines 958-972, which reads the label of every
\* entry, does not fault.
C28_EntriesCarryLabel ==
    /\ \A p \in DOMAIN frames :
          \A k \in DOMAIN frames[p].stage_results :
              \A j \in DOMAIN frames[p].stage_results[k][2] :
                  {"output", "success", "tool"} \subseteq
                      DOMAIN frames[p].stage_results[k][2][j]
    /\ (cli.pc = "crashed" /\ <<>> \in DOMAIN frames) => frames[<<>>].pc # "returned"

\* A nested-flow task whose flow does not resolve.
Unresolvable(task) ==
    DOMAIN task \cap {"alias", "command", "flow"} = {"flow"} /\ load_flow(task.flow) = <<>>

\* C29 (as claimed): a nested-flow task whose flow cannot be resolved gives a
\* failed TaskResult for that task and no nested call, in a broadcast stage as
\* in a chained stage, and the stage and the flow go on: the call does not
\* end by a TypeError in a stage that holds such a task.
C29_UnresolvedFlowFails ==
    \A p \in DOMAIN frames :
        LET f == frames[p] IN
        /\ \A k \in 1..f.stage_index :
              LET tasks == Get(StageDefAt(f, k), "tasks", <<>>)
              IN  \A j \in DOMAIN tasks :
                      Unresolvable(tasks[j]) =>
                          /\ ChildPath(p, k, j) \notin DOMAIN frames
                          /\ (k \in DOMAIN f.stage_results
                               /\ Len(f.stage_results[k][2]) = Len(tasks)) =>
                                 LET r == f.stage_results[k][2][j]
                                 IN  "tool" \in DOMAIN r /\ ~r.success
                          /\ (f.pc = "raised" /\ k = f.stage_index) => f.error # "TypeError"

\* r is the text t in which some placeholders {{name}} of names bound in d
\* were replaced by their values, at most fuel times (a replaced value may
\* bring placeholders that are replaced in turn), and nothing else changed.
RECURSIVE OnlyBoundReplaced(_, _, _, _)
OnlyBoundReplaced(t, r, d, fuel) ==
    IF t = <<>> THEN r = <<>>
    ELSE \/ r # <<>> /\ Head(t) = Head(r) /\ OnlyBoundReplaced(Tail(t), Tail(r), d, fuel)
         \/ /\ fuel > 0
            /\ \E i \in DOMAIN d :
                  LET ph == Placeholder(d[i][1])
                  IN  /\ Len(t) >= Len(ph)
                      /\ SubSeq(t, 1, Len(ph)) = ph
                      /\ OnlyBoundReplaced(d[i][2] \o SubSeq(t, Len(ph) + 1, Len(t)),
                                           r, d, fuel - 1)

\* The names of the expansion runs that the binding map does not hold.
UnboundNames == {n \in {VarA, VarB, VarUrl} : ~HasKey(cli.var_values, n)}

\* The number of occurrences of sub in s from index i on.
RECURSIVE Count(_, _, _)
Count(s, sub, i) ==
    IF i + Len(sub) - 1 > Len(s) THEN 0
    ELSE (IF SubSeq(s, i, i + Len(sub) - 1) = sub THEN 1 ELSE 0) + Count(s, sub, i + 1)

\* C30: in the expansion of an alias task's template every placeholder
\* {{name}} whose name has no value in the bindings is left verbatim in the
\* command string, and the expansion changes nothing but placeholders of
\* bound names.
C30_UnboundLeftVerbatim ==
    (cli.pc = "expanded" /\ cli.kind = "alias") =>
        /\ \A n \in UnboundNames :
              Count(cli.full_cmd, Placeholder(n), 1) >= Count(cli.template, Placeholder(n), 1)
        /\ OnlyBoundReplaced(full_cmd(<<"n", "m", "a", "p">>, cli.template), cli.full_cmd,
                             cli.processed_vars, Len(cli.template))

\* C30 witness: the template "{{b}} {{a}}" of an alias that declares a and b
\* was expanded with a bound and b unbound: {{b}} is still in the command.
C30_Witness ==
    /\ cli.pc = "expanded" /\ cli.kind = "alias"
    /\ cli.template = Placeholder(VarB) \o <<" ">> \o Placeholder(VarA)
    /\ cli.variables = <<[name |-> VarA], [name |-> VarB]>>
    /\ cli.var_values = << <<VarA, <<"v">>>> >>
    /\ cli.full_cmd = <<"n", "m", "a", "p", " ">> \o Placeholder(VarB) \o <<" ", "v">>

\* The (key, value) pairs of the headers a composed call was given.
SuppliedHeaders ==
    IF cli.fn = "exec_command"
    THEN [i \in DOMAIN cli.headers |->
             <<strip(Split1(cli.headers[i])[1]), strip(Split1(cli.headers[i])[2])>>]
    ELSE cli.headers

\* The header flag of the tool of a composed call, "" when it declares none.
DeclaredFlag == Get(load_tool(Name(Split1(cli.alias_name)[1]))[1], "header_flag", "")

\* The text flag "key: value" for each of the headers hs, each after a space.
RECURSIVE QuotedHeaders(_, _)
QuotedHeaders(flag, hs) ==
    IF hs = <<>> THEN <<>>
    ELSE <<" ", flag, " ", "\"">> \o Head(hs)[1] \o <<":", " ">> \o Head(hs)[2] \o <<"\"">>
           \o QuotedHeaders(flag, Tail(hs))

\* C31: the command composed for an alias holds, when the tool declares a
\* non-empty header flag, exactly one occurrence of the flag followed by the
\* quoted header per supplied header, in the order supplied; it holds none
\* when the tool declares no header flag or no header was supplied.
C31_OneFlagPerHeader ==
    cli.pc = "composed" =>
        LET flag   == DeclaredFlag
            hs     == SuppliedHeaders
            quoted == QuotedHeaders(flag, hs)
            flags  == {i \in DOMAIN cli.full_cmd : cli.full_cmd[i] \in {"-H", "\""}}
        IN  IF flag # "" /\ hs # <<>>
            THEN /\ Len(cli.full_cmd) > Len(quoted)
                 /\ SubSeq(cli.full_cmd, Len(cli.full_cmd) - Len(quoted) + 1,
                           Len(cli.full_cmd)) = quoted
                 /\ Cardinality({i \in DOMAIN cli.full_cmd : cli.full_cmd[i] = flag})
                       = Len(hs)
            ELSE flags = {}

\* C31 witness: the tool declares the flag -H and two headers were supplied;
\* the command ends with -H "A: b" -H "C: d".
C31_Witness ==
    /\ cli.pc = "composed"
    /\ DeclaredFlag = "-H"
    /\ Len(SuppliedHeaders) = 2
    /\ SuppliedHeaders[1] # SuppliedHeaders[2]
    /\ Occurs(cli.full_cmd,
              <<" ", "-H", " ", "\"", "A", ":", " ", "b", "\"",
                " ", "-H", " ", "\"", "C", ":", " ", "d", "\"">>)

\* The positions of the extra arguments where a --name is expected.
NamePositions(args) == {i \in DOMAIN args : i % 2 = 1}

\* The list holds a bare token where a --name is expected, or ends with a
\* --name that has no value.
UsageError(args) ==
    \E i \in NamePositions(args) : ~StartsWithDashes(args[i]) \/ i = Len(args)

\* The value the last --name value pair for name n gives.
LastAssigned(args, n) ==
    LET at == {i \in NamePositions(args) : Name(lstrip_dashes(args[i])) = n}
    IN  args[(CHOOSE i \in at : \A j \in at : j <= i) + 1]

AssignedNames(args) == {Name(lstrip_dashes(args[i])) : i \in NamePositions(args)}

\* b is a binding map of the declared variables: a declared variable holds
\* its command-line value when it has one, else an answer of the prompt.
DeclaredBindings(b, declared, args) ==
    /\ DOMAIN b = declared
    /\ \A n \in declared :
          IF n \in AssignedNames(args) THEN b[n] = LastAssigned(args, n)
          ELSE b[n] \in Answers

\* C33: the bindings the flow-run command hands to the validator and to the
\* engine have exactly the flow's declared variable names as keys, each with
\* its command-line value when supplied and else the prompted value;
\* assignments to undeclared names are not in the bindings.
C33_BindingsAreDeclared ==
    [][(cli.pc = "invoked" /\ cli'.pc # "invoked") =>
          LET flow_def == load_flow(cli.flow_name)
              declared == DOMAIN Get(flow_def, "variables", <<>>)
          IN  /\ cli'.pc = "running" =>
                    /\ DeclaredBindings(cli'.var_values, declared, cli.args)
                    /\ frames'[<<>>].var_values = cli'.var_values
                    /\ validate_flow(flow_def, cli'.var_values)[1]
              /\ (cli'.pc = "stopped" /\ cli'.message.fmt = "In stage '{}': {}") =>
                    \E b \in [declared -> Answers \cup {cli.args[i] : i \in DOMAIN cli.args}] :
                        /\ DeclaredBindings(b, declared, cli.args)
                        /\ cli'.message = validate_flow(flow_def, b)[2]]_vars

\* C33 witness: flow vars, which declares t, runs with t bound to the value
\* of the command line, w, and with nothing for the undeclared z.
C33_Witness ==
    /\ cli.pc = "running" /\ cli.flow_name = "vars"
    /\ cli.var_values = [t |-> <<"w">>]
    /\ <<>> \in DOMAIN frames /\ frames[<<>>].var_values = [t |-> <<"w">>]

\* Call p is in a chained stage.
InChained(p) ==
    /\ frames[p].pc \in {"chained", "await"}
    /\ frames[p].stage_index > 0
    /\ ~IsBroadcast(LastStageDef(frames[p]))

\* The tasks of the stage in progress of call p that are in flight: their
\* process has not exited, or the call made for them has not returned.
InFlight(p) ==
    {pr.task_no : pr \in {x \in procs : x.owner = p /\ x.stage = frames[p].stage_index}}
      \cup {i \in DOMAIN frames[p].tasks :
                ChildPath(p, frames[p].stage_index, i) \in DOMAIN frames}

\* C34: within one chained stage at most one task is in flight at any time,
\* and task i+1 is in flight only after task i has completed and its result
\* has been recorded.
C34_OneTaskInFlight ==
    \A p \in DOMAIN frames :
        InChained(p) =>
            /\ Cardinality(InFlight(p)) <= 1
            /\ \A i \in InFlight(p) :
                  /\ frames[p].pc = "await"
                  /\ Len(frames[p].stage_tools_results) = i - 1

\* C34 witness: the second task of a chained stage is in flight, alone, and
\* the result of the first task is recorded.
C34_Witness ==
    \E p \in DOMAIN frames :
        /\ InChained(p)
        /\ InFlight(p) = {2}
        /\ Len(frames[p].stage_tools_results) = 1
        /\ \E pr \in procs : pr.owner = p /\ pr.task_no = 2

\* The call has ended: it returned, or an exception left it.
Ended(f) == f.pc \in {"returned", "raised"}

\* C35 (as claimed): a call of run_flow_internal that created and started a
\* progress handle has stopped it when it has ended, by a return or by an
\* exception; a handle is stopped only by the call that created it.
C35_HandleStopped ==
    /\ \A p \in DOMAIN frames :
          (Ended(frames[p]) /\ frames[p].new_progress_created) =>
              handles[frames[p].progress] = "stopped"
    /\ cli.pc = "engine" =>
          \A h \in DOMAIN handles :
              handles[h] = "stopped" =>
                  \E p \in DOMAIN frames :
                      /\ frames[p].new_progress_created /\ frames[p].progress = h
                      /\ Ended(frames[p])

\* C36 (as claimed): the value threaded between the tasks of a chained stage
\* and between stages, and returned as the flow's final output, is never the
\* empty string: it is absent or a non-empty string.
C36_NeverEmptyString ==
    \A p \in DOMAIN frames :
        LET f == frames[p] IN
        /\ f.current_input # <<>>
        /\ f.previous_stage_output # <<>>
        /\ (f.pc = "returned" /\ IsFlowResult(f.ret)) => f.ret.output # <<>>

\* The alias task sets pipe_input and its tool declares accepts_stdin false.
PipesIntoNoStdin(task) ==
    /\ "alias" \in DOMAIN task /\ HasColon(task.alias)
    /\ Get(Get(task, "settings", <<>>), "pipe_input", FALSE) = TRUE
    /\ Get(load_tool(tool_name_of(task))[1], "accepts_stdin", TRUE) = FALSE

\* C37 (as claimed): a flow is rejected when a stage its order names holds an
\* alias task with settings.pipe_input = true whose tool declares
\* accepts_stdin = false, whether or not the tool declares a header flag.
C37_NoStdinRejected ==
    cli.pc = "validated" =>
        \A s \in NamedStages(cli.flow_def) :
            LET tasks == Get(cli.flow_def.stages[s], "tasks", <<>>)
            IN  (\E i \in DOMAIN tasks : PipesIntoNoStdin(tasks[i])) => ~cli.valid

\* The value the parent of the nested call q pipes to the task of q: the
\* incoming stage value in a broadcast stage, the running value in a chained
\* stage, nothing when the task disables pipe_input.
PipedToCall(q) ==
    LET f == frames[Parent(q)]
    IN  IF ~pipe_input(TaskOfCall(q)) THEN None
        ELSE IF IsBroadcast(StageDefAt(f, q[Len(q)][1])) THEN f.previous_stage_output
        ELSE f.current_input

\* The input of every nested call is the value piped to its task, and it is
\* the input of the nested flow's first stage.
NestedInputIsPiped ==
    \A q \in DOMAIN frames :
        q # <<>> =>
            /\ frames[q].input_data = PipedToCall(q)
            /\ (frames[q].pc = "stages" /\ frames[q].stage_index = 0) =>
                   frames[q].previous_stage_output = PipedToCall(q)
            /\ (frames[q].pc = "chained" /\ frames[q].stage_index = 1
                 /\ frames[q].task_index = 0) =>
                   frames[q].current_input = PipedToCall(q)

\* In the step that takes the FlowResult of the nested call q, the entry
\* recorded for its task in the parent stage has the nested flow's output.
NestedOutputRecorded(q) ==
    LET k  == q[Len(q)][1]
        i  == q[Len(q)][2]
        fp == frames'[Parent(q)]
        results == IF fp.pc = "chained" THEN fp.stage_tools_results
                   ELSE fp.stage_results[k][2]
    IN  fp.pc # "raised" =>
            /\ Len(results) >= i
            /\ results[i].output = frames[q].ret.output

\* C38: a nested flow's first stage receives as its input exactly the value
\* the parent stage pipes to the nested-flow task (the incoming stage value in
\* a broadcast stage, the running value in a chained stage, no input when the
\* task disables pipe_input), and the nested flow's final output is the
\* task's output in the parent stage.
C38_NestedFlowPiping ==
    /\ []NestedInputIsPiped
    /\ [][\A q \in DOMAIN frames \ DOMAIN frames' :
              (q # <<>> /\ frames[q].pc = "returned" /\ IsFlowResult(frames[q].ret)
               /\ Parent(q) \in DOMAIN frames') => NestedOutputRecorded(q)]_vars

\* C38 witness: in a chained stage whose running value is "a" a nested flow
\* was called with "a" as its input, and its first stage has that input.
C38_Witness ==
    \E q \in DOMAIN frames :
        /\ q # <<>>
        /\ ~IsBroadcast(StageDefAt(frames[Parent(q)], q[Len(q)][1]))
        /\ pipe_input(TaskOfCall(q))
        /\ frames[Parent(q)].current_input = <<"a">>
        /\ frames[Parent(q)].previous_stage_output # <<"a">>
        /\ frames[q].input_data = <<"a">>
        /\ frames[q].pc = "chained" /\ frames[q].current_input = <<"a">>
\* What a call on a Flow object is about: the reference names a tool and an
\* alias, and the alias is in the aliases file of the tool or is not.
NamesAlias(task) == "alias" \in DOMAIN task /\ Len(split(task.alias)) = 2

InAliasFile(task) ==
    /\ NamesAlias(task)
    /\ Name(split(task.alias)[1]) \in DOMAIN ToolFiles
    /\ Name(split(task.alias)[2]) \in DOMAIN ToolFiles[Name(split(task.alias)[1])].aliases

CommandOf(task) ==
    <<Name(split(task.alias)[1]), " ">>
        \o ToolFiles[Name(split(task.alias)[1])].aliases[Name(split(task.alias)[2])].command

\* C39: in any sequence of alias_to_command calls on one Flow object, a call
\* with "tool:alias" returns tool + " " + the command of that alias, and a
\* call whose alias is not in the aliases file of the tool never returns the
\* command an earlier call resolved.
C39_NoStaleCommand ==
    (cli.pc = "build" /\ cli.i > 1 /\ NamesAlias(cli.stage_execution[cli.i - 1])) =>
        LET task     == cli.stage_execution[cli.i - 1]
            returned == cli.tmp_alias[Len(cli.tmp_alias)][1]
        IN  IF InAliasFile(task) THEN returned = CommandOf(task)
            ELSE \A k \in 1..(cli.i - 2) :
                     InAliasFile(cli.stage_execution[k]) =>
                         returned # CommandOf(cli.stage_execution[k])

\* Where a stage lies in the stage list (every stage has a name of its own).
PositionOf(flow_stages, name) == CHOOSE p \in DOMAIN flow_stages : flow_stages[p].name = name

Present(flow_stages, name) == \E p \in DOMAIN flow_stages : flow_stages[p].name = name

FollowsItsStage(flow_stages, child_stages) ==
    /\ Present(flow_stages, child_stages[1].insert_after)
    /\ LET p == PositionOf(flow_stages, child_stages[1].insert_after)
       IN  /\ p + Len(child_stages) <= Len(flow_stages)
           /\ \A k \in DOMAIN child_stages : flow_stages[p + k] = child_stages[k]

WasPresent(stage) == \E p \in DOMAIN cli.called_with : cli.called_with[p] = stage

\* C40: after _insert_child_flow_stages the stages of every non-empty child
\* list lie in the flow's stage list contiguously, in the order of the list,
\* starting right after the stage insert_after names; the stages that were
\* there before keep their relative order and none is removed.
C40_ChildStagesFollowTheirStage ==
    cli.pc = "inserted" =>
        /\ \A i \in DOMAIN cli.stage_list :
               cli.stage_list[i] # <<>> => FollowsItsStage(cli.stages, cli.stage_list[i])
        /\ SelectSeq(cli.stages, WasPresent) = cli.called_with

====
